---- MODULE Spec2Model ----
(***************************************************************************)
(* Model of the ebyst boundary-scan host: the TAP controller               *)
(* (tap_controller.py), the bit-serial transport (drivers/driver.py), the  *)
(* simulated scan chain (drivers/sim.py), the device/cell model            *)
(* (device.py) and the cooperative cycle() of the scan engine.             *)
(***************************************************************************)
EXTENDS Integers, Sequences, FiniteSets, TLC

(***************************************************************************)
(* tap_controller.State                                                    *)
(***************************************************************************)
TEST_LOGIC_RESET == 0
RUN_TEST_IDLE == 1
SELECT_DR_SCAN == 10
CAPTURE_DR == 11
SHIFT_DR == 12
EXIT1_DR == 13
PAUSE_DR == 14
EXIT2_DR == 15
UPDATE_DR == 16
SELECT_IR_SCAN == 20
CAPTURE_IR == 21
SHIFT_IR == 22
EXIT1_IR == 23
PAUSE_IR == 24
EXIT2_IR == 25
UPDATE_IR == 26

State ==
  { TEST_LOGIC_RESET, RUN_TEST_IDLE, SELECT_DR_SCAN, CAPTURE_DR, SHIFT_DR,
    EXIT1_DR, PAUSE_DR, EXIT2_DR, UPDATE_DR, SELECT_IR_SCAN, CAPTURE_IR,
    SHIFT_IR, EXIT1_IR, PAUSE_IR, EXIT2_IR, UPDATE_IR }

Opcode == { "BYPASS", "IDCODE", "SAMPLE", "PRELOAD", "EXTEST", "EXTEST_PULSE" }

MAX_IR_CHAIN_LENGTH == 255

\* Width of an IDCODE register slice (the literal 32 of validate_chain).
IdcodeLen == 32

\* Cell.in_value before the first capture.
None == -1

(***************************************************************************)
(* Bounds of the model                                                     *)
(***************************************************************************)
\* Longest chain (simulated or configured).
MaxDevices == 2
\* Iterations the routing loop of _goto is followed before it is given up
\* as not terminating.
MaxRoute == 20
\* Operations the host calls in one run.
MaxOps == 2
\* Tasks that share the controller.
MaxTasks == 2
\* Calls of cycle() by one task.
MaxCycles == 2

(***************************************************************************)
(* Bit strings (bitarray): sequences of 0/1, index 1 is bit 0.             *)
(***************************************************************************)
\* bitarray(b) * n
Repeat(b, n) == [i \in 1..n |-> b]

\* bitarray('0') * MAX_IR_CHAIN_LENGTH
Zeros255 == Repeat(0, MAX_IR_CHAIN_LENGTH)

\* Python slice s[a:b] with 0 <= a, clipped to the length (0-based, b excl.).
Slice(s, a, b) ==
  LET lo == IF a < 0 THEN 0 ELSE a
      hi == IF b > Len(s) THEN Len(s) ELSE b
  IN  IF hi <= lo THEN <<>> ELSE SubSeq(s, lo + 1, hi)

(***************************************************************************)
(* device.StdLogicPattern                                                  *)
(***************************************************************************)
\* StdLogicPattern.to_bitarray: X becomes 0.
PatternToBits(p) == [i \in 1..Len(p) |-> IF p[i] = "1" THEN 1 ELSE 0]

\* StdLogicPattern.__eq__(pattern, other)
PatternEq(p, other) ==
  /\ Len(p) = Len(other)
  /\ \A i \in 1..Len(p) :
       p[i] = "X" \/ (IF p[i] = "1" THEN 1 ELSE 0) = other[i]

(***************************************************************************)
(* Devices (device.Device): irlen, idcode pattern, opcode table (stored in *)
(* shift order, bit 0 first) and the safe values of the cells.             *)
(***************************************************************************)
IdA == [i \in 1..IdcodeLen |-> IF i \in {1, 5, 32} THEN "1" ELSE "0"]
IdB == [i \in 1..IdcodeLen |-> IF i \in {1, 2, 31} THEN "1" ELSE "0"]
IdC == [i \in 1..IdcodeLen |-> IF i \in {1, 3, 30} THEN "1" ELSE "0"]
\* IdA with a don't-care where IdA has a 1
IdAX == [IdA EXCEPT ![5] = "X"]
\* IdA with another bit at a position that is not X
IdA2 == [IdA EXCEPT ![32] = "0"]

DevA ==
  [ irlen |-> 4, idcode |-> IdA,
    opcodes |-> [ BYPASS |-> <<1, 1, 1, 1>>, IDCODE |-> <<1, 0, 0, 0>>,
                  SAMPLE |-> <<0, 1, 0, 0>>, EXTEST |-> <<0, 0, 0, 0>> ],
    safe |-> <<0>> ]
DevB ==
  [ irlen |-> 6, idcode |-> IdB,
    opcodes |-> [ BYPASS |-> <<1, 1, 1, 1, 1, 1>>, IDCODE |-> <<1, 0, 0, 1, 0, 0>>,
                  SAMPLE |-> <<1, 1, 0, 0, 0, 0>>, EXTEST |-> <<0, 1, 1, 0, 0, 0>>,
                  PRELOAD |-> <<1, 1, 0, 0, 0, 0>>,
                  EXTEST_PULSE |-> <<0, 0, 1, 0, 1, 1>> ],
    safe |-> <<1, 0>> ]
DevC ==
  [ irlen |-> 8, idcode |-> IdC,
    opcodes |-> [ BYPASS |-> <<1, 1, 1, 1, 1, 1, 1, 1>>,
                  IDCODE |-> <<1, 0, 0, 1, 0, 0, 0, 0>>,
                  SAMPLE |-> <<1, 0, 0, 0, 0, 0, 0, 0>>,
                  EXTEST |-> <<1, 1, 1, 1, 0, 0, 0, 0>>,
                  PRELOAD |-> <<1, 0, 0, 0, 0, 0, 0, 0>>,
                  EXTEST_PULSE |-> <<0, 0, 1, 0, 1, 1, 0, 1>> ],
    safe |-> <<1, 1, 0>> ]
DevAX == [DevA EXCEPT !.idcode = IdAX]
DevA2 == [DevA EXCEPT !.idcode = IdA2]

\* A device whose instruction register is as long as detect_chain counts
DevL ==
  [ irlen |-> MAX_IR_CHAIN_LENGTH, idcode |-> IdA,
    opcodes |-> [ BYPASS |-> Repeat(1, MAX_IR_CHAIN_LENGTH),
                  IDCODE |-> Repeat(0, MAX_IR_CHAIN_LENGTH - 1) \o <<1>>,
                  SAMPLE |-> <<1>> \o Repeat(0, MAX_IR_CHAIN_LENGTH - 1),
                  EXTEST |-> Repeat(0, MAX_IR_CHAIN_LENGTH) ],
    safe |-> <<0>> ]

\* The cells of device P, as Cell.__init__ takes them from a BSDL file:
\* port ("*" for none), function, safe value, and for an output cell the
\* index of its control cell (counted from 0, None if it has none) and
\* the value of that cell that disables the output.
CellsP ==
  << [port |-> "OUT", function |-> "output3", safe |-> "0", ctl_cell |-> None,
      out_dis_ctl |-> None],
     [port |-> "IO", function |-> "bidir", safe |-> "X", ctl_cell |-> 2,
      out_dis_ctl |-> 1],
     [port |-> "*", function |-> "control", safe |-> "1", ctl_cell |-> None,
      out_dis_ctl |-> None],
     [port |-> "IN", function |-> "input", safe |-> "X", ctl_cell |-> None,
      out_dis_ctl |-> None],
     [port |-> "OD", function |-> "bidir", safe |-> "1", ctl_cell |-> None,
      out_dis_ctl |-> None],
     [port |-> "TRI", function |-> "output3", safe |-> "X", ctl_cell |-> 6,
      out_dis_ctl |-> 0],
     [port |-> "*", function |-> "control", safe |-> "0", ctl_cell |-> None,
      out_dis_ctl |-> None] >>

\* Cell.__init__ / set_safe: out_value is 0 unless the safe value is 0 or 1
SafeValues(cells) ==
  [i \in 1..Len(cells) |-> IF cells[i].safe = "1" THEN 1 ELSE 0]

\* Device P: device A's TAP with the cells above.
DevP == [DevA EXCEPT !.safe = SafeValues(CellsP)]

DeviceIds == { "A", "B", "C", "AX", "A2" }
\* "S0" and "S1" are device A with its TDO pin stuck at 0 and at 1.
Dev(id) ==
  CASE id = "A" -> DevA
    [] id = "B" -> DevB
    [] id = "C" -> DevC
    [] id = "AX" -> DevAX
    [] id = "A2" -> DevA2
    [] id = "L" -> DevL
    [] id = "P" -> DevP
    [] id \in {"S0", "S1"} -> DevA

\* What leaves the TDO pin of device id when its shift register puts out
\* tdo: the bit itself, unless the pin is stuck.
Wire(id, tdo) ==
  CASE id = "S0" -> 0
    [] id = "S1" -> 1
    [] OTHER -> tdo

BrLen(id) == Len(Dev(id).safe)

(***************************************************************************)
(* drivers/sim.py : Sim                                                    *)
(***************************************************************************)
\* The integer placeholders Sim.reset() stores in ir, shift_ir and
\* shift_dr: equal to no opcode, and never shifted before a capture.
IntReg == <<>>

\* Sim.__init__ / Sim.reset.  tck and tms1 observe the wire: the TCK
\* cycles the Sim has been clocked with, and how many of them had TMS=1.
SimInit(id) ==
  [ device |-> id, state |-> TEST_LOGIC_RESET,
    shift_ir |-> IntReg, ir |-> IntReg, shift_dr |-> IntReg,
    tck |-> 0, tms1 |-> 0 ]

\* next_state of Sim.transfer: the IEEE 1149.1 next-state table
NextState(s, tms) ==
  CASE s = TEST_LOGIC_RESET -> IF tms = 0 THEN RUN_TEST_IDLE ELSE TEST_LOGIC_RESET
    [] s = RUN_TEST_IDLE -> IF tms = 1 THEN SELECT_DR_SCAN ELSE RUN_TEST_IDLE
    [] s = SELECT_DR_SCAN -> IF tms = 0 THEN CAPTURE_DR ELSE SELECT_IR_SCAN
    [] s = CAPTURE_DR -> IF tms = 0 THEN SHIFT_DR ELSE EXIT1_DR
    [] s = SHIFT_DR -> IF tms = 1 THEN EXIT1_DR ELSE SHIFT_DR
    [] s = EXIT1_DR -> IF tms = 0 THEN PAUSE_DR ELSE UPDATE_DR
    [] s = PAUSE_DR -> IF tms = 1 THEN EXIT2_DR ELSE PAUSE_DR
    [] s = EXIT2_DR -> IF tms = 0 THEN SHIFT_DR ELSE UPDATE_DR
    [] s = UPDATE_DR -> IF tms = 0 THEN RUN_TEST_IDLE ELSE SELECT_DR_SCAN
    [] s = SELECT_IR_SCAN -> IF tms = 0 THEN CAPTURE_IR ELSE TEST_LOGIC_RESET
    [] s = CAPTURE_IR -> IF tms = 0 THEN SHIFT_IR ELSE EXIT1_IR
    [] s = SHIFT_IR -> IF tms = 1 THEN EXIT1_IR ELSE SHIFT_IR
    [] s = EXIT1_IR -> IF tms = 0 THEN PAUSE_IR ELSE UPDATE_IR
    [] s = PAUSE_IR -> IF tms = 1 THEN EXIT2_IR ELSE PAUSE_IR
    [] s = EXIT2_IR -> IF tms = 0 THEN SHIFT_IR ELSE UPDATE_IR
    [] s = UPDATE_IR -> IF tms = 0 THEN RUN_TEST_IDLE ELSE SELECT_DR_SCAN

\* The data register Sim.transfer loads in CAPTURE_DR for instruction ir.
\* SAMPLE, EXTEST and unknown instructions all load a single 0 bit.
SimCaptureDr(id, ir) ==
  LET Load(dev) == IF ir = dev.opcodes["IDCODE"] THEN PatternToBits(dev.idcode)
                   ELSE <<0>>
  IN  Load(Dev(id))

\* Sim.transfer(tms, tdi): the new Sim and the TDO bit
SimTransfer(sim, tms, tdi) ==
  LET Seen == [sim EXCEPT !.tck = @ + 1, !.tms1 = @ + tms]
      Zeroed(n, ns) == [Seen EXCEPT !.ir = Repeat(0, n), !.shift_ir = Repeat(0, n),
                                   !.state = ns]
      Clock(s, ns) ==
        CASE s = CAPTURE_DR ->
               [ sim |-> [Seen EXCEPT !.shift_dr = SimCaptureDr(sim.device, sim.ir),
                                     !.state = ns],
                 tdo |-> 0 ]
          [] s = SHIFT_DR ->
               [ sim |-> [Seen EXCEPT !.shift_dr = Append(Tail(sim.shift_dr), tdi),
                                     !.state = ns],
                 tdo |-> sim.shift_dr[1] ]
          [] s = CAPTURE_IR ->
               [ sim |-> Zeroed(Dev(sim.device).irlen, ns), tdo |-> 0 ]
          [] s = SHIFT_IR ->
               [ sim |-> [Seen EXCEPT !.shift_ir = Append(Tail(sim.shift_ir), tdi),
                                     !.state = ns],
                 tdo |-> sim.shift_ir[1] ]
          [] s = UPDATE_IR ->
               [ sim |-> [Seen EXCEPT !.ir = sim.shift_ir, !.state = ns],
                 tdo |-> 0 ]
          [] OTHER -> [ sim |-> [Seen EXCEPT !.state = ns], tdo |-> 0 ]
  IN  Clock(sim.state, NextState(sim.state, tms))

(***************************************************************************)
(* drivers/sim.py : SimChain.  A driver value is [sims, tdo]: the chain    *)
(* of Sims and the bits returned so far by the running driver call.        *)
(***************************************************************************)
RECURSIVE ChainTransfer(_, _, _, _)
\* SimChain.transfer: device i's TDO is device i+1's TDI; returns the
\* sims and the TDO of the last device (tdi itself for an empty chain).
ChainTransfer(sims, i, tms, tdi) ==
  LET Pass(r) == ChainTransfer([sims EXCEPT ![i] = r.sim], i + 1, tms,
                               Wire(sims[i].device, r.tdo))
  IN  IF i > Len(sims) THEN [sims |-> sims, tdo |-> tdi]
      ELSE Pass(SimTransfer(sims[i], tms, tdi))

Transfer(sims, tms, tdi) == ChainTransfer(sims, 1, tms, tdi)

(***************************************************************************)
(* drivers/driver.py : Driver.  Each call returns [sims, tdo, err]: err is *)
(* "" unless the call raised.                                              *)
(***************************************************************************)
RECURSIVE TransmitTmsStr(_, _, _)
\* Driver.transmit_tms_str(tms_str, tdi)
TransmitTmsStr(sims, tms_str, tdi) ==
  IF tms_str = <<>> THEN sims
  ELSE TransmitTmsStr(Transfer(sims, Head(tms_str), tdi).sims, Tail(tms_str), tdi)

RECURSIVE ShiftRange(_, _, _, _, _)
\* the loop "for tdi in bits[lo..hi]: r.append(self.transfer(tms, tdi))",
\* bit after bit in order; the range is halved, and the first half's
\* result demanded before the second half starts, only to keep the
\* evaluation shallow.
ShiftRange(sims, bits, lo, hi, tms) ==
  LET One(t) == [sims |-> t.sims, tdo |-> <<t.tdo>>]
      Join(a, b) == [sims |-> b.sims, tdo |-> a.tdo \o b.tdo]
      Second(a, mid) ==
        IF Len(a.tdo) = mid - lo + 1
        THEN Join(a, ShiftRange(a.sims, bits, mid + 1, hi, tms))
        ELSE [sims |-> a.sims, tdo |-> a.tdo]
      Halves(mid) == Second(ShiftRange(sims, bits, lo, mid, tms), mid)
  IN  IF lo > hi THEN [sims |-> sims, tdo |-> <<>>]
      ELSE IF lo = hi THEN One(Transfer(sims, tms, bits[lo]))
      ELSE Halves((lo + hi) \div 2)

ShiftBits(sims, bits, tms) == ShiftRange(sims, bits, 1, Len(bits), tms)

\* Driver.transfer_tdi_tdo_str(tdi_str, first_tms, last_tms); tdi_str[-1]
\* of an empty string raises after the (empty) loop.
TransferTdiTdoStr(sims, tdi_str, first_tms, last_tms) ==
  LET Done(a, b) == [sims |-> b.sims, tdo |-> Append(a.tdo, b.tdo), err |-> ""]
      Last(a) == Done(a, Transfer(a.sims, last_tms, tdi_str[Len(tdi_str)]))
  IN  IF tdi_str = <<>> THEN [sims |-> sims, tdo |-> <<>>, err |-> "IndexError"]
      ELSE Last(ShiftBits(sims, Slice(tdi_str, 0, Len(tdi_str) - 1), first_tms))

\* Driver.transmit_tdi_str(tdi_str, first_tms, last_tms)
TransmitTdiStr(sims, tdi_str, first_tms, last_tms) ==
  TransferTdiTdoStr(sims, tdi_str, first_tms, last_tms)

\* Driver.receive_tdo_str(n, first_tms, first_tdi=0, last_tms, last_tdi=None)
ReceiveTdoStr(sims, n, first_tms, last_tms) ==
  LET Done(a, b) == [sims |-> b.sims, tdo |-> Append(a.tdo, b.tdo), err |-> ""]
      Last(a) == Done(a, Transfer(a.sims, last_tms, 0))
  IN  IF n < 1 \/ (n = 1 /\ first_tms # last_tms)
      THEN [sims |-> sims, tdo |-> <<>>, err |-> "ValueError"]
      ELSE Last(ShiftBits(sims, Repeat(0, n - 1), first_tms))

\* Driver.reset: five TCK cycles with TMS=1 (SimChain does not override it)
DriverReset(sims) == TransmitTmsStr(sims, <<1, 1, 1, 1, 1>>, 0)

(***************************************************************************)
(* tap_controller.py : TapController._goto                                 *)
(***************************************************************************)
\* A SELECT_DR_SCAN branch that leaves the data column for UPDATE_DR too.
GotoSelectDrScanExclusive(target_state) ==
  IF target_state > SELECT_DR_SCAN /\ target_state < UPDATE_DR
  THEN [tms |-> 0, state |-> CAPTURE_DR]
  ELSE [tms |-> 1, state |-> SELECT_IR_SCAN]

\* The SELECT_DR_SCAN branch of _goto: into the data column for its
\* targets, on to SELECT_IR_SCAN for every other.
GotoSelectDrScan(target_state) ==
  IF target_state > SELECT_DR_SCAN /\ target_state <= UPDATE_DR
  THEN [tms |-> 0, state |-> CAPTURE_DR]
  ELSE [tms |-> 1, state |-> SELECT_IR_SCAN]

\* A routing in which EXIT1_DR is left by an edge the TAP does not have.
GotoExit1DrNoEdge(target_state) ==
  IF target_state \in {PAUSE_DR, EXIT2_DR, SHIFT_DR}
  THEN [tms |-> 0, state |-> PAUSE_DR]
  ELSE [tms |-> 0, state |-> UPDATE_DR]

\* A routing that always leaves EXIT1_DR through PAUSE_DR.
GotoExit1DrDetour(target_state) == [tms |-> 0, state |-> PAUSE_DR]

\* The branch of the loop for state == State.EXIT1_DR
GotoExit1Dr(target_state) ==
  IF target_state \in {PAUSE_DR, EXIT2_DR, SHIFT_DR}
  THEN [tms |-> 0, state |-> PAUSE_DR]
  ELSE [tms |-> 1, state |-> UPDATE_DR]

\* One iteration of the while loop of _goto: the TMS bit appended and the
\* new value of the local variable state.
GotoStep(state, target_state) ==
  CASE state = TEST_LOGIC_RESET -> [tms |-> 0, state |-> RUN_TEST_IDLE]
    [] state = RUN_TEST_IDLE -> [tms |-> 1, state |-> SELECT_DR_SCAN]
    [] state = SELECT_DR_SCAN -> GotoSelectDrScan(target_state)
    [] state = CAPTURE_DR ->
         IF target_state = SHIFT_DR
         THEN [tms |-> 0, state |-> SHIFT_DR]
         ELSE [tms |-> 1, state |-> EXIT1_DR]
    [] state = SHIFT_DR -> [tms |-> 1, state |-> EXIT1_DR]
    [] state = EXIT1_DR -> GotoExit1Dr(target_state)
    [] state = PAUSE_DR -> [tms |-> 1, state |-> EXIT2_DR]
    [] state = EXIT2_DR ->
         IF target_state \in {SHIFT_DR, EXIT1_DR, PAUSE_DR}
         THEN [tms |-> 0, state |-> SHIFT_DR]
         ELSE [tms |-> 1, state |-> UPDATE_DR]
    [] state = UPDATE_DR ->
         IF target_state = RUN_TEST_IDLE
         THEN [tms |-> 0, state |-> RUN_TEST_IDLE]
         ELSE [tms |-> 1, state |-> SELECT_DR_SCAN]
    [] state = SELECT_IR_SCAN ->
         IF target_state > SELECT_IR_SCAN /\ target_state <= UPDATE_IR
         THEN [tms |-> 0, state |-> CAPTURE_IR]
         ELSE [tms |-> 1, state |-> TEST_LOGIC_RESET]
    [] state = CAPTURE_IR ->
         IF target_state = SHIFT_IR
         THEN [tms |-> 0, state |-> SHIFT_IR]
         ELSE [tms |-> 1, state |-> EXIT1_IR]
    [] state = SHIFT_IR -> [tms |-> 1, state |-> EXIT1_IR]
    [] state = EXIT1_IR ->
         IF target_state \in {PAUSE_IR, EXIT2_IR, SHIFT_IR}
         THEN [tms |-> 0, state |-> PAUSE_IR]
         ELSE [tms |-> 1, state |-> UPDATE_IR]
    [] state = PAUSE_IR -> [tms |-> 1, state |-> EXIT2_IR]
    [] state = EXIT2_IR ->
         IF target_state \in {SHIFT_IR, EXIT1_IR, PAUSE_IR}
         THEN [tms |-> 0, state |-> SHIFT_IR]
         ELSE [tms |-> 1, state |-> UPDATE_IR]
    [] state = UPDATE_IR ->
         IF target_state = RUN_TEST_IDLE
         THEN [tms |-> 0, state |-> RUN_TEST_IDLE]
         ELSE [tms |-> 1, state |-> SELECT_DR_SCAN]

RECURSIVE GotoLoop(_, _, _, _, _)
\* The while loop of _goto, followed for at most fuel iterations: the TMS
\* string built, the states the local variable went through, and whether
\* the loop ended.
GotoLoop(state, target_state, tms, path, fuel) ==
  LET Take(st) == GotoLoop(st.state, target_state, Append(tms, st.tms),
                           Append(path, st.state), fuel - 1)
  IN  IF state = target_state
      THEN [tms |-> tms, path |-> path, state |-> state, done |-> TRUE]
      ELSE IF fuel = 0
      THEN [tms |-> tms, path |-> path, state |-> state, done |-> FALSE]
      ELSE Take(GotoStep(state, target_state))

GotoRoute(state, target_state) ==
  GotoLoop(state, target_state, <<>>, <<state>>, MaxRoute)

\* TapController._goto(target_state, tdi) on controller c
Goto(c, target_state, tdi) ==
  LET Send(r) == [c EXCEPT !.sims = TransmitTmsStr(c.sims, r.tms, tdi),
                           !.state = r.state]
  IN  IF c.state = target_state THEN c
      ELSE Send(GotoRoute(c.state, target_state))

(***************************************************************************)
(* device.py : Cell, Device.update_br / generate_br                        *)
(* A device of the chain is [id, out, in]: the catalogue entry and the     *)
(* out_value and in_value of its cells, cell 0 first.                      *)
(***************************************************************************)
\* Cell.__init__ with set_safe, for every cell of a new Device
NewDevice(id) ==
  [ id |-> id, out |-> Dev(id).safe, in |-> [i \in 1..BrLen(id) |-> None],
    max_freq |-> None ]

\* Device.generate_br
DeviceGenerateBr(dev) == dev.out

\* Device.update_br(br), the length check done by the caller below
DeviceUpdateBr(dev, br) == [dev EXCEPT !.in = br]

(***************************************************************************)
(* device.py : Pin.  A pin is [input_cell, output_cell, control_cell]:     *)
(* positions in the device's cells, None where the pin has no such cell.   *)
(***************************************************************************)
Ports(cells) == { cells[i].port : i \in 1..Len(cells) } \ {"*"}

\* The position of the last cell of the port that satisfies Has, or None:
\* the loop of Device.__init__ overwrites earlier cells of the same port.
IsOutput(cell) == cell.function \in {"output3", "bidir"}
IsInput(cell) == cell.function \in {"input", "bidir"}
IsControlled(cell) == IsOutput(cell) /\ cell.ctl_cell # None
Has(cell, kind) ==
  CASE kind = "input" -> IsInput(cell)
    [] kind = "output" -> IsOutput(cell)
    [] kind = "control" -> IsControlled(cell)

LastCell(cells, port, kind) ==
  LET S == { i \in 1..Len(cells) : cells[i].port = port /\ Has(cells[i], kind) }
  IN  IF S = {} THEN None ELSE CHOOSE i \in S : \A j \in S : j <= i

\* The pin Device.__init__ builds for a port (pinmap[port])
PinOf(cells, port) ==
  [ input_cell |-> LastCell(cells, port, "input"),
    output_cell |-> LastCell(cells, port, "output"),
    control_cell |->
      IF LastCell(cells, port, "control") = None THEN None
      ELSE cells[LastCell(cells, port, "control")].ctl_cell + 1 ]

\* Pin.output_enable(enable) on the pin of port; out are the out_values of
\* the device's cells.
PinOutputEnable(cells, out, port, enable) ==
  LET pin == PinOf(cells, port)
  IN  IF pin.output_cell = None THEN [out |-> out, err |-> "no output cell"]
      ELSE IF pin.control_cell = None
      THEN IF pin.input_cell # None THEN [out |-> out, err |-> "no control cell"]
           ELSE [out |-> out, err |-> ""]
      ELSE [out |-> [out EXCEPT ![pin.control_cell] =
                       IF enable THEN 1 - cells[pin.output_cell].out_dis_ctl
                       ELSE cells[pin.output_cell].out_dis_ctl],
            err |-> ""]

\* Pin.set_value(value)
PinSetValue(cells, out, port, value) ==
  LET pin == PinOf(cells, port)
  IN  IF pin.output_cell = None THEN [out |-> out, err |-> "no output cell"]
      ELSE [out |-> [out EXCEPT ![pin.output_cell] = IF value # 0 THEN 1 ELSE 0],
            err |-> ""]

(***************************************************************************)
(* tap_controller.py : TapController.Chain                                 *)
(***************************************************************************)
\* Chain.brlen
ChainBrLen(chain) ==
  LET RECURSIVE Sum(_)
      Sum(i) == IF i > Len(chain) THEN 0 ELSE Len(chain[i].out) + Sum(i + 1)
  IN  Sum(1)

\* sum(dev.irlen for dev in self.chain)
ChainIrLen(chain) ==
  LET RECURSIVE Sum(_)
      Sum(i) == IF i > Len(chain) THEN 0 ELSE Dev(chain[i].id).irlen + Sum(i + 1)
  IN  Sum(1)

\* Chain.generate_ir raises when some device lacks the instruction
SupportedByAll(chain, instruction) ==
  \A i \in 1..Len(chain) : instruction \in DOMAIN Dev(chain[i].id).opcodes

\* A generate_ir that appends each next device's opcode.
ChainGenerateIrAppended(chain, instruction) ==
  LET RECURSIVE Gen(_, _)
      Gen(i, tdi_str) ==
        IF i > Len(chain) THEN tdi_str
        ELSE Gen(i + 1, tdi_str \o Dev(chain[i].id).opcodes[instruction])
  IN  Gen(1, <<>>)

\* Chain.generate_ir: each next device's opcode is prepended
ChainGenerateIr(chain, instruction) ==
  LET RECURSIVE Gen(_, _)
      Gen(i, tdi_str) ==
        IF i > Len(chain) THEN tdi_str
        ELSE Gen(i + 1, Dev(chain[i].id).opcodes[instruction] \o tdi_str)
  IN  Gen(1, <<>>)

\* Chain.generate_br: each next device's cells are prepended
ChainGenerateBr(chain) ==
  LET RECURSIVE Gen(_, _)
      Gen(i, tdi_str) ==
        IF i > Len(chain) THEN tdi_str
        ELSE Gen(i + 1, DeviceGenerateBr(chain[i]) \o tdi_str)
  IN  Gen(1, <<>>)

\* Chain.update_br(br): device i takes br[o:o+l], o advancing from 0;
\* Device.update_br raises ValueError on a slice of the wrong length, the
\* devices before it staying updated.
ChainUpdateBr(chain, br) ==
  LET RECURSIVE Upd(_, _, _)
      Upd(ch, i, o) ==
        LET Store(l, sl) ==
              IF Len(sl) # l THEN [chain |-> ch, err |-> "ValueError"]
              ELSE Upd([ch EXCEPT ![i] = DeviceUpdateBr(ch[i], sl)], i + 1, o + l)
        IN  IF i > Len(ch) THEN [chain |-> ch, err |-> ""]
            ELSE Store(Len(ch[i].out), Slice(br, o, o + Len(ch[i].out)))
  IN  Upd(chain, 1, 0)

(***************************************************************************)
(* tap_controller.py : TapController.  The controller c is                 *)
(* [state, sims, chain, validated, in_extest, cycle_counter, calls]; sims  *)
(* is the driver it owns, calls observes the register operations it has    *)
(* completed.  A method returns [c, err, ret]: err is "" unless the method *)
(* raised, ret is the value returned.                                      *)
(***************************************************************************)
Ok(c, ret) == [c |-> c, err |-> "", ret |-> ret]
Raise(c, err) == [c |-> c, err |-> err, ret |-> <<>>]

\* The controller with a completed register operation recorded: its name,
\* argument, result and the value of in_extest while it ran.
Called(c, op, arg, ret) ==
  [c EXCEPT !.calls = Append(@, [op |-> op, arg |-> arg, ret |-> ret,
                                 in_extest |-> c.in_extest])]

\* A first_tms that is 0 whatever the length.
FirstTmsLow(n) == 0

\* first_tms of the shifts: 0 if len > 1 else 1
FirstTms(n) == IF n > 1 THEN 0 ELSE 1

\* The frequency TapController.__init__ hands to the driver (100e3)
InitialFrequency == 100000
\* driver.set_freq(freq) called by the method by: the driver's frequencies
\* are kept in the order they were set
SetFreq(c, by, freq) == [c EXCEPT !.freqs = Append(@, [by |-> by, freq |-> freq])]

\* TapController.__init__ over a SimChain of the devices hw
NewController(hw) ==
  [ state |-> TEST_LOGIC_RESET,
    sims |-> DriverReset([i \in 1..Len(hw) |-> SimInit(hw[i])]),
    chain |-> <<>>, validated |-> FALSE, in_extest |-> FALSE,
    cycle_counter |-> 0, calls |-> <<>>, pins |-> <<>>,
    max_freq |-> None, freqs |-> <<[by |-> "__init__", freq |-> InitialFrequency]>> ]

\* A reset that sets the recorded state without driving the TAP.
ResetStateOnly(c) == Ok([c EXCEPT !.state = TEST_LOGIC_RESET], <<>>)

\* TapController.reset
Reset(c) ==
  Ok([c EXCEPT !.sims = DriverReset(c.sims), !.state = TEST_LOGIC_RESET], <<>>)

\* TapController.enter_state
EnterState(c, s) == Ok(Goto(c, s, 0), <<>>)

\* An add_device that leaves the validated flag as it is.
AddDeviceKeepsFlag(c, id) ==
  Ok([c EXCEPT !.chain = Append(c.chain, NewDevice(id))], <<>>)

\* TapController.add_device
AddDevice(c, id) ==
  Ok([c EXCEPT !.chain = Append(c.chain, NewDevice(id)), !.validated = FALSE], <<>>)

\* TapController.load_instruction
LoadInstruction(c, instruction) ==
  LET Finish(c1, t) ==
        IF t.err # "" THEN Raise([c1 EXCEPT !.sims = t.sims], t.err)
        ELSE Ok([Goto([Called(c1, "load_instruction", instruction, <<>>)
                         EXCEPT !.sims = t.sims, !.state = EXIT1_IR], UPDATE_IR, 0)
                   EXCEPT !.in_extest = FALSE], <<>>)
      Shift(c1, tdi_str) ==
        Finish(c1, TransmitTdiStr(c1.sims, tdi_str, FirstTms(Len(tdi_str)), 1))
  IN  IF ~c.validated THEN Raise(c, "Chain not validated")
      ELSE IF ~SupportedByAll(c.chain, instruction)
      THEN Raise(c, "Instruction not supported")
      ELSE Shift(Goto(c, SHIFT_IR, 0), ChainGenerateIr(c.chain, instruction))

\* TapController.read_register
ReadRegister(c, n) ==
  LET Finish(c1, t) ==
        IF t.err # "" THEN Raise([c1 EXCEPT !.sims = t.sims], t.err)
        ELSE Ok(Goto([Called(c1, "read_register", n, t.tdo)
                        EXCEPT !.sims = t.sims, !.state = EXIT1_DR], UPDATE_DR, 0),
                t.tdo)
      Shift(c1) == Finish(c1, ReceiveTdoStr(c1.sims, n, FirstTms(n), 1))
  IN  IF ~c.validated THEN Raise(c, "Chain not validated")
      ELSE Shift(Goto(c, SHIFT_DR, 0))

\* TapController.write_register
WriteRegister(c, tdi) ==
  LET Finish(c1, t) ==
        IF t.err # "" THEN Raise([c1 EXCEPT !.sims = t.sims], t.err)
        ELSE Ok(Goto([Called(c1, "write_register", tdi, <<>>)
                        EXCEPT !.sims = t.sims, !.state = EXIT1_DR], UPDATE_DR, 0),
                <<>>)
      Shift(c1) == Finish(c1, TransmitTdiStr(c1.sims, tdi, FirstTms(Len(tdi)), 1))
  IN  IF ~c.validated THEN Raise(c, "Chain not validated")
      ELSE Shift(Goto(c, SHIFT_DR, 0))

\* TapController.read_write_register
ReadWriteRegister(c, tdi) ==
  LET Finish(c1, t) ==
        IF t.err # "" THEN Raise([c1 EXCEPT !.sims = t.sims], t.err)
        ELSE Ok(Goto([Called(c1, "read_write_register", tdi, t.tdo)
                        EXCEPT !.sims = t.sims, !.state = EXIT1_DR], UPDATE_DR, 0),
                t.tdo)
      Shift(c1) == Finish(c1, TransferTdiTdoStr(c1.sims, tdi, FirstTms(Len(tdi)), 1))
  IN  IF ~c.validated THEN Raise(c, "Chain not validated")
      ELSE Shift(Goto(c, SHIFT_DR, 0))

\* The controller with its observations (of the wire, of the register
\* operations) started afresh.
Quiet(c) ==
  [c EXCEPT !.sims = [d \in DOMAIN c.sims |-> [c.sims[d] EXCEPT !.tck = 0, !.tms1 = 0]],
            !.calls = <<>>]

RECURSIVE EdgeLoop(_, _)
\* At most n rounds of the loop
\*   "while self.driver.transfer(0, 1) == 0: len += 1; if len >= MAX: raise"
\* from st = [sims, len, err, left]; left tells that the loop has been left.
\* Round follows round in order; the rounds are halved only to keep the
\* evaluation shallow.
EdgeLoop(st, n) ==
  LET Test(t) ==
        IF t.tdo # 0 THEN [st EXCEPT !.sims = t.sims, !.left = TRUE]
        ELSE IF st.len + 1 >= MAX_IR_CHAIN_LENGTH
        THEN [sims |-> t.sims, len |-> st.len + 1, err |-> "TDO stuck at 0",
              left |-> TRUE]
        ELSE [st EXCEPT !.sims = t.sims, !.len = @ + 1]
      Second(a, m) == IF a.left THEN a ELSE EdgeLoop(a, m)
  IN  IF st.left \/ n = 0 THEN st
      ELSE IF n = 1 THEN Test(Transfer(st.sims, 0, 1))
      ELSE Second(EdgeLoop(st, n \div 2), n - n \div 2)

\* The loop run from len until it is left, which the limit makes happen
\* within MAX rounds.
FindRisingEdge(sims, len) ==
  LET Result(r) == [sims |-> r.sims, len |-> r.len, err |-> r.err]
  IN  Result(EdgeLoop([sims |-> sims, len |-> len, err |-> "", left |-> FALSE],
                      MAX_IR_CHAIN_LENGTH))

\* A measurement that counts the clock on which TDO rises as well.
MeasureLengthInclusive(sims) ==
  LET Count(b) ==
        IF b.tdo # 0 THEN [sims |-> b.sims, len |-> 0, err |-> "TDO stuck at 1"]
        ELSE FindRisingEdge(b.sims, 1)
  IN  Count(Transfer(TransmitTdiStr(sims, Zeros255, 0, 0).sims, 0, 0))

\* One half of the try block of detect_chain, entered in SHIFT_IR or
\* SHIFT_DR: shift MAX zeros, check TDO is 0, then count up to the first 1.
MeasureLength(sims) ==
  LET Count(b) ==
        IF b.tdo # 0 THEN [sims |-> b.sims, len |-> 0, err |-> "TDO stuck at 1"]
        ELSE FindRisingEdge(b.sims, 0)
  IN  Count(Transfer(TransmitTdiStr(sims, Zeros255, 0, 0).sims, 0, 0))

\* A detect_chain whose route to TEST_LOGIC_RESET is skipped when it raises.
DetectChainNoFinally(c) ==
  LET Finally(c4, err, ret) ==
        [c |-> IF err # "" THEN c4 ELSE Goto(c4, TEST_LOGIC_RESET, 0),
         err |-> err, ret |-> ret]
      Dr(c3, ir, dr) ==
        Finally([c3 EXCEPT !.sims = dr.sims], dr.err,
                IF dr.err # "" THEN <<>> ELSE <<dr.len, ir.len>>)
      ToDr(c3, ir) == Dr(c3, ir, MeasureLength(c3.sims))
      Ir(c1, ir) ==
        IF ir.err # "" THEN Finally([c1 EXCEPT !.sims = ir.sims], ir.err, <<>>)
        ELSE ToDr(Goto(Goto([c1 EXCEPT !.sims = ir.sims], UPDATE_IR, 1), SHIFT_DR, 0),
                  ir)
      ToIr(c1) == Ir(c1, MeasureLength(c1.sims))
  IN  ToIr(Goto(c, SHIFT_IR, 0))

\* TapController.detect_chain: returns <<drlen, irlen>>; the finally
\* clause routes to TEST_LOGIC_RESET on every way out.
DetectChain(c) ==
  LET Finally(c4, err, ret) ==
        [c |-> Goto(c4, TEST_LOGIC_RESET, 0), err |-> err, ret |-> ret]
      Dr(c3, ir, dr) ==
        Finally([c3 EXCEPT !.sims = dr.sims], dr.err,
                IF dr.err # "" THEN <<>> ELSE <<dr.len, ir.len>>)
      ToDr(c3, ir) == Dr(c3, ir, MeasureLength(c3.sims))
      Ir(c1, ir) ==
        IF ir.err # "" THEN Finally([c1 EXCEPT !.sims = ir.sims], ir.err, <<>>)
        ELSE ToDr(Goto(Goto([c1 EXCEPT !.sims = ir.sims], UPDATE_IR, 1), SHIFT_DR, 0),
                  ir)
      ToIr(c1) == Ir(c1, MeasureLength(c1.sims))
  IN  ToIr(Goto(c, SHIFT_IR, 0))

\* A slicing that puts device 0 at the lowest bit indices.
IdcodeSliceLow(idcode, i) ==
  Slice(idcode, i * IdcodeLen, i * IdcodeLen + IdcodeLen)

\* The 32-bit slice of device i (0-based) of the chain in validate_chain:
\* idcode[len(idcode)-i*32-32 : len(idcode)-i*32]
IdcodeSlice(idcode, i) ==
  Slice(idcode, Len(idcode) - i * IdcodeLen - IdcodeLen, Len(idcode) - i * IdcodeLen)

\* "if idcode[...] != dev.idcode: raise" for some device of the chain
IdcodeMismatch(chain, idcode) ==
  \E i \in 1..Len(chain) :
    ~PatternEq(Dev(chain[i].id).idcode, IdcodeSlice(idcode, i - 1))

\* The try block of validate_chain, after chain.validated = True.  The
\* method returns nothing; ret carries its local variable idcode, the bits
\* read, once they have been read.
ValidateBody(c, drlen) ==
  LET Captured(c4, idcode, u) ==
        IF u.err # "" THEN Raise([c4 EXCEPT !.chain = u.chain], u.err)
        ELSE Ok([c4 EXCEPT !.chain = u.chain], idcode)
      Sampled(r2, idcode) ==
        IF r2.err # "" THEN r2
        ELSE Captured(r2.c, idcode, ChainUpdateBr(r2.c.chain, r2.ret))
      Sample(l2, idcode) ==
        IF l2.err # "" THEN l2
        ELSE Sampled(ReadRegister(l2.c, ChainBrLen(l2.c.chain)), idcode)
      Compare(r1) ==
        IF r1.err # "" THEN r1
        ELSE IF IdcodeMismatch(r1.c.chain, r1.ret)
        THEN [c |-> r1.c, err |-> "IDCode doesn't match", ret |-> r1.ret]
        ELSE Sample(LoadInstruction(r1.c, "SAMPLE"), r1.ret)
      Read(l1) ==
        IF l1.err # "" THEN l1
        ELSE Compare(ReadRegister(l1.c, IdcodeLen * drlen))
  IN  Read(LoadInstruction(c, "IDCODE"))

RECURSIVE ChainMaxFreq(_, _, _)
\* The loop of validate_chain over the devices from device i on, with
\* max_freq so far: the lowest max_freq; a device without max_freq after
\* a max_freq is known makes the comparison raise TypeError.
ChainMaxFreq(chain, i, max_freq) ==
  IF i > Len(chain) THEN [max_freq |-> max_freq, err |-> ""]
  ELSE IF max_freq = None THEN ChainMaxFreq(chain, i + 1, chain[i].max_freq)
  ELSE IF chain[i].max_freq = None THEN [max_freq |-> max_freq, err |-> "TypeError"]
  ELSE IF chain[i].max_freq < max_freq THEN ChainMaxFreq(chain, i + 1, chain[i].max_freq)
  ELSE ChainMaxFreq(chain, i + 1, max_freq)

\* validate_chain: "if not max_freq is None: self.driver.set_freq(max_freq)"
DriverLimited(c, max_freq) ==
  IF max_freq # None THEN SetFreq(c, "validate_chain", max_freq) ELSE c

\* TapController.set_frequency: min(frequency, self.max_freq or frequency)
SetFrequency(c, frequency) ==
  LET limit == IF c.max_freq \in {None, 0} THEN frequency ELSE c.max_freq
  IN  Ok(SetFreq(c, "set_frequency", IF frequency < limit THEN frequency ELSE limit), <<>>)

\* TapController.validate_chain.  The driver is given the lowest max_freq
\* before the IDCODE is read; nothing else in validate_chain sets the
\* frequency, so it is added to the frequencies set once the rest is done.
ValidateChain(c) ==
  LET Leave(b) ==
        [b EXCEPT !.c = Goto(IF b.err # "" THEN [b.c EXCEPT !.validated = FALSE]
                             ELSE b.c, RUN_TEST_IDLE, 0)]
      Limited(b) ==
        [b EXCEPT !.c = DriverLimited(@, ChainMaxFreq(c.chain, 1, c.max_freq).max_freq)]
      Check(d) ==
        IF d.err # "" THEN d
        ELSE IF d.ret[1] # Len(d.c.chain)
        THEN Raise(d.c, "Incorrect nr of devices in chain")
        ELSE IF d.ret[2] # ChainIrLen(d.c.chain)
        THEN Raise(d.c, "Incorrect total ir length")
        ELSE IF ChainMaxFreq(c.chain, 1, c.max_freq).err # ""
        THEN Raise(d.c, ChainMaxFreq(c.chain, 1, c.max_freq).err)
        ELSE Limited(Leave(ValidateBody([d.c EXCEPT !.validated = TRUE], d.ret[1])))
  IN  Check(DetectChain(c))

\* What a driver that loops every cell back to itself returns for the
\* boundary-register stream tdi: the same stream.
LoopbackCapture(tdi) == tdi

\* The position in the boundary-register stream of cell i of device d:
\* the cells of the devices after d come first.
StreamPosition(chain, d, i) ==
  LET RECURSIVE After(_)
      After(e) == IF e > Len(chain) THEN 0 ELSE Len(chain[e].out) + After(e + 1)
  IN  After(d + 1) + i

\* What devices capture whose pins are driven with the values last
\* shifted in (pins, by stream position) and whose first pin is wired to
\* their second: the second cell samples the first pin, every other cell
\* its own.
WiredCapture(chain, pins) ==
  [p \in 1..Len(pins) |->
     IF \E d \in 1..Len(chain) : Len(chain[d].out) >= 2 /\ p = StreamPosition(chain, d, 2)
     THEN pins[p - 1] ELSE pins[p]]

\* The boundary-register scan shared by extest() and cycle():
\*   br = chain.generate_br(); br = read_write_register(br); chain.update_br(br)
\* loopback tells whether the transport loops the cells back; devices
\* with pins capture them and then drive them with what was shifted in.
ScanBr(c, loopback) ==
  LET Updated(c1, br, cap, u) ==
        IF u.err # "" THEN Raise([c1 EXCEPT !.chain = u.chain], u.err)
        ELSE [c |-> [c1 EXCEPT !.chain = u.chain], err |-> "",
              ret |-> [tdi |-> br, tdo |-> cap]]
      Update(c1, br, cap) == Updated(c1, br, cap, ChainUpdateBr(c1.chain, cap))
      Scanned(r, br) ==
        IF r.err # "" THEN r
        ELSE Update([r.c EXCEPT !.pins = IF @ # <<>> THEN br ELSE @], br,
                    IF loopback THEN LoopbackCapture(br)
                    ELSE IF c.pins # <<>> THEN WiredCapture(c.chain, c.pins)
                    ELSE r.ret)
      Scan(br) == Scanned(ReadWriteRegister(c, br), br)
  IN  Scan(ChainGenerateBr(c.chain))

\* An extest that loads EXTEST without the SAMPLE scan before it.
ExtestNoPreload(c, loopback) ==
  LET Entered(l2) ==
        IF l2.err # "" THEN l2 ELSE Ok([l2.c EXCEPT !.in_extest = TRUE], <<>>)
  IN  Entered(LoadInstruction([c EXCEPT !.in_extest = FALSE], "EXTEST"))

\* TapController.extest
Extest(c, loopback) ==
  LET Entered(l2) ==
        IF l2.err # "" THEN l2 ELSE Ok([l2.c EXCEPT !.in_extest = TRUE], <<>>)
      Enter(sc) ==
        IF sc.err # "" THEN sc ELSE Entered(LoadInstruction(sc.c, "EXTEST"))
      Sample(l1) ==
        IF l1.err # "" THEN l1 ELSE Enter(ScanBr(l1.c, loopback))
  IN  Sample(LoadInstruction([c EXCEPT !.in_extest = FALSE], "SAMPLE"))

\* The body of cycle() run by the task that performs the scan:
\* the scan, then cycle_counter += 1
CycleScan(c, loopback) ==
  LET Count(sc) ==
        IF sc.err # "" THEN sc
        ELSE [sc EXCEPT !.c.cycle_counter = c.cycle_counter + 1]
  IN  Count(ScanBr(c, loopback))

\* A wait that holds TMS low in TEST_LOGIC_RESET as well.
WaitTmsLow(c, cycles) ==
  IF c.state \in {RUN_TEST_IDLE, PAUSE_DR, PAUSE_IR, TEST_LOGIC_RESET}
  THEN Ok([c EXCEPT !.sims = TransmitTmsStr(c.sims, Repeat(0, cycles), 0)], <<>>)
  ELSE Raise(c, "not a wait state")

\* TapController.wait(cycles)
Wait(c, cycles) ==
  IF c.state \in {RUN_TEST_IDLE, PAUSE_DR, PAUSE_IR}
  THEN Ok([c EXCEPT !.sims = TransmitTmsStr(c.sims, Repeat(0, cycles), 0)], <<>>)
  ELSE IF c.state \in {TEST_LOGIC_RESET}
  THEN Ok([c EXCEPT !.sims = TransmitTmsStr(c.sims, Repeat(1, cycles), 0)], <<>>)
  ELSE Raise(c, "not a wait state")

\* TapController.ir_scan(ir, end_state); end_state None = not given
IrScan(c, ir, end_state) ==
  LET Finish(c1, t) ==
        IF t.err # "" THEN Raise([c1 EXCEPT !.sims = t.sims], t.err)
        ELSE Ok([(IF end_state # None
                  THEN Goto([c1 EXCEPT !.sims = t.sims, !.state = EXIT1_IR],
                            end_state, 0)
                  ELSE [c1 EXCEPT !.sims = t.sims, !.state = EXIT1_IR])
                   EXCEPT !.in_extest = FALSE], t.tdo)
      Shift(c1) == Finish(c1, TransferTdiTdoStr(c1.sims, ir, FirstTms(Len(ir)), 1))
  IN  Shift(Goto(c, SHIFT_IR, 0))

\* TapController.dr_scan(dr, end_state)
DrScan(c, dr, end_state) ==
  LET Finish(c1, t) ==
        IF t.err # "" THEN Raise([c1 EXCEPT !.sims = t.sims], t.err)
        ELSE Ok([(IF end_state # None
                  THEN Goto([c1 EXCEPT !.sims = t.sims, !.state = EXIT1_DR],
                            end_state, 0)
                  ELSE [c1 EXCEPT !.sims = t.sims, !.state = EXIT1_DR])
                   EXCEPT !.in_extest = FALSE], t.tdo)
      Shift(c1) == Finish(c1, TransferTdiTdoStr(c1.sims, dr, FirstTms(Len(dr)), 1))
  IN  Shift(Goto(c, SHIFT_DR, 0))

(***************************************************************************)
(* STAPL: a parsed file (stapl/stapl.py) and the interpreter that runs its *)
(* actions (stapl/interpreter.py).  Statements are indexed from 0 as in    *)
(* StaplFile.statements; the statement at index pc is statements[pc + 1].  *)
(***************************************************************************)
\* data.Any, data.Int and data.Bool values
AnyVal(v) == [t |-> "Any", v |-> v]
IntVal(v) == [t |-> "Int", v |-> v]
BoolVal(v) == [t |-> "Bool", v |-> v]

\* Expressions: a literal or a variable, a literal with the unary minus,
\* and the Int(1) that a FOR without STEP has for its step
Lit(v) == [e |-> "literal", v |-> v, name |-> ""]
Var(name) == [e |-> "variable", v |-> 0, name |-> name]
Neg(v) == [e |-> "negative", v |-> v, name |-> ""]
DefaultStep == [e |-> "Int", v |-> 1, name |-> ""]

\* Statements
ProcedureInstruction(name, uses) == [op |-> "PROCEDURE", name |-> name, uses |-> uses]
EndProcedureInstruction == [op |-> "ENDPROC"]
DataInstruction(name) == [op |-> "DATA", name |-> name]
EndDataInstruction == [op |-> "ENDDATA"]
CallInstruction(procedure) == [op |-> "CALL", procedure |-> procedure]
ExitInstruction(exit_code) == [op |-> "EXIT", exit_code |-> exit_code]
PushInstruction(value) == [op |-> "PUSH", value |-> value]
PopInstruction(variable) == [op |-> "POP", variable |-> variable]
IntegerInstruction(name, value) == [op |-> "INTEGER", name |-> name, value |-> value]
ForInstruction(var, start, end, step) ==
  [op |-> "FOR", var |-> var, start |-> start, end |-> end, step |-> step]
\* A statement's reference to a variable: name, name[first] or
\* name[first..last]; NoExpr stands for the None of a part that is absent
NoExpr == [e |-> "none", v |-> 0, name |-> ""]
VariableRef(name) == [name |-> name, first |-> NoExpr, last |-> NoExpr]
ElementRef(name, first) == [name |-> name, first |-> first, last |-> NoExpr]
SliceRef(name, first, last) == [name |-> name, first |-> first, last |-> last]
NoVariable == VariableRef("")
AssignmentInstruction(variable, value) == [op |-> "ASSIGN", variable |-> variable, value |-> value]
\* BOOLEAN name; BOOLEAN name = value; BOOLEAN name[length]; length -1 is None
BooleanInstruction(name, length, value) ==
  [op |-> "BOOLEAN", name |-> name, length |-> length, value |-> value]
DrScanInstruction(length, data_array, capture_array, compare_array, compare_mask_array,
                  compare_result) ==
  [op |-> "DRSCAN", length |-> length, data_array |-> data_array,
   capture_array |-> capture_array, compare_array |-> compare_array,
   compare_mask_array |-> compare_mask_array, compare_result |-> compare_result]
IrScanInstruction(length, data_array, capture_array, compare_array, compare_mask_array,
                  compare_result) ==
  [op |-> "IRSCAN", length |-> length, data_array |-> data_array,
   capture_array |-> capture_array, compare_array |-> compare_array,
   compare_mask_array |-> compare_mask_array, compare_result |-> compare_result]
DrStopInstruction(state) == [op |-> "DRSTOP", state |-> state]
IrStopInstruction(state) == [op |-> "IRSTOP", state |-> state]
FrequencyInstruction(frequency) == [op |-> "FREQUENCY", frequency |-> frequency]

NextInstruction(var) == [op |-> "NEXT", var |-> var]

\* An ACTION line: its name and its procedures with their categories
Action(name, procedures) == [name |-> name, procedures |-> procedures]

\* StaplFile.__init__: the entry index of every procedure and data block
Named(statements, op) ==
  { statements[i].name : i \in { j \in 1..Len(statements) : statements[j].op = op } }
EntryOf(statements, op, name) ==
  CHOOSE i \in 0..(Len(statements) - 1) :
    /\ statements[i + 1].op = op
    /\ statements[i + 1].name = name
    /\ \A j \in (i + 1)..(Len(statements) - 1) :
         ~(statements[j + 1].op = op /\ statements[j + 1].name = name)
\* the data blocks in the order of the file, as the dict data_blocks keeps them
RECURSIVE DataBlocksFrom(_, _)
DataBlocksFrom(statements, i) ==
  IF i > Len(statements) THEN <<>>
  ELSE IF statements[i].op = "DATA"
       /\ \A j \in 1..(i - 1) : ~(statements[j].op = "DATA" /\ statements[j].name = statements[i].name)
  THEN <<statements[i].name>> \o DataBlocksFrom(statements, i + 1)
  ELSE DataBlocksFrom(statements, i + 1)
StaplFile(actions, statements) ==
  [actions |-> actions,
   statements |-> statements,
   procedures |-> [n \in Named(statements, "PROCEDURE") |-> EntryOf(statements, "PROCEDURE", n)],
   data_blocks |-> [n \in Named(statements, "DATA") |-> EntryOf(statements, "DATA", n)],
   data_order |-> DataBlocksFrom(statements, 1)]

\* StaplFile.actions[name]: the last ACTION line of that name
ActionNames(file) == { file.actions[i].name : i \in 1..Len(file.actions) }
ActionOf(file, name) ==
  file.actions[CHOOSE i \in 1..Len(file.actions) :
                 /\ file.actions[i].name = name
                 /\ \A j \in (i + 1)..Len(file.actions) : file.actions[j].name # name]

\* CheckedVariableScope: a dict from names to Variable objects.  A Variable
\* created by a statement of the frame holds its value (owner = ""); one
\* taken over from a data scope by USES is the object of that data scope,
\* and its value is the one kept there.
EmptyScope == [n \in {} |-> 0]
Variable(v) == [owner |-> "", v |-> v]
Shared(owner) == [owner |-> owner, v |-> AnyVal(0)]
Bind(scope, name, var) == [n \in DOMAIN scope \cup {name} |-> IF n = name THEN var ELSE scope[n]]
\* dict.update
ScopeUpdate(scope, other) ==
  [n \in DOMAIN scope \cup DOMAIN other |-> IF n \in DOMAIN other THEN other[n] ELSE scope[n]]

\* StaplInterpreter.State.__init__
NewState(pc, procedure) ==
  [pc |-> pc, procedure |-> procedure, loop_stack |-> <<>>, scope |-> EmptyScope,
   stack |-> <<>>]
\* self.state = None
NoState == NewState(-1, "")

\* StaplInterpreter.__init__, with the position of run() (running, which,
\* datas, looked, procs, block, entry), the way the last run() ended
\* (result, code, error, pc), and of the run() in progress or last ended:
\* its arguments, the depth of the call stack when it was called, the
\* procedures it started, the indices of the statements it executed and
\* the scans it asked the controller for.
NewInterpreter(file) ==
  [ctl |-> NewController(<<>>), stapl |-> file, call_stack |-> <<>>, data_scopes |-> EmptyScope, state |-> NoState,
   ir_stop |-> RUN_TEST_IDLE, dr_stop |-> RUN_TEST_IDLE,
   running |-> FALSE, which |-> {}, datas |-> <<>>, looked |-> FALSE, procs |-> <<>>,
   block |-> "", entry |-> -1,
   result |-> "", code |-> 0, error |-> "", pc |-> -1,
   args |-> [action |-> "", recommended |-> FALSE, optional |-> FALSE],
   depth |-> 0, started |-> <<>>, log |-> <<>>, scans |-> <<>>]

\* StaplInterpreter(ctl, stapl)
StaplInterpreter(c, file) == [NewInterpreter(file) EXCEPT !.ctl = c]

\* What executing one statement did: the interpreter after it, whether
\* execute() returned True, and the exception it raised if any.
Continue(si) == [si |-> si, more |-> TRUE, exc |-> "", msg |-> "", code |-> 0]
Return(si) == [si |-> si, more |-> FALSE, exc |-> "", msg |-> "", code |-> 0]
Throw(si, exc, msg) == [si |-> si, more |-> FALSE, exc |-> exc, msg |-> msg, code |-> 0]
StaplExitCode(si, code) ==
  [si |-> si, more |-> FALSE, exc |-> "StaplExitCode", msg |-> "", code |-> code]

\* The value of the Variable bound to name in the frame's scope
ValueOf(si, name) ==
  LET var == si.state.scope[name]
  IN  IF var.owner = "" THEN var.v ELSE si.data_scopes[var.owner][name].v

\* Literal.evaluate, Variable.evaluate: whether the expression has a value
\* (a variable that is not in the scope raises VariableNotDefined) ...
Evaluable(si, expr) == expr.e # "variable" \/ expr.name \in DOMAIN si.state.scope
\* Int.__neg__
Negative(v) == IntVal(0 - v.v)
\* the unary minus of the expression grammar, applied to a literal
UnaryMinus(expr) ==
  Negative(IF expr.v \in {0, 1} THEN AnyVal(expr.v) ELSE IntVal(expr.v))
\* ... and the value
Evaluate(si, expr) ==
  CASE expr.e = "literal" -> (IF expr.v \in {0, 1} THEN AnyVal(expr.v) ELSE IntVal(expr.v))
    [] expr.e = "negative" -> UnaryMinus(expr)
    [] expr.e = "Int" -> IntVal(expr.v)
    [] OTHER -> ValueOf(si, expr.name)
\* The variable whose evaluation fails first, the expressions evaluated in turn
RECURSIVE NotDefined(_, _)
NotDefined(si, exprs) ==
  IF Evaluable(si, Head(exprs)) THEN NotDefined(si, Tail(exprs)) ELSE Head(exprs).name

\* data.BoolArray: the bits of the bitarray, the bit of index k at k + 1
BoolArray(bits) == [t |-> "BoolArray", v |-> bits]
\* BoolArray([0] * length)
BoolArrayZeros(length) == [k \in 1..length |-> 0]

\* bitarray[stop:start:-1] read down to and including the index start
Downwards(bits, start, stop) ==
  LET top == IF stop > Len(bits) - 1 THEN Len(bits) - 1 ELSE stop
  IN  [j \in 1..(IF top < start THEN 0 ELSE top - start + 1) |-> bits[top - j + 2]]

\* BoolArray.__getitem__(slice(start, stop)): a[start..stop] of STAPL
BoolArrayGetSlice(bits, start, stop) ==
  IF start < stop THEN Downwards(bits, start, stop)
  ELSE Slice(bits, stop, start + 1)

\* A fit that cuts a longer v to its high bits.
BoolArrayFitHigh(v, slice_length) ==
  [j \in 1..slice_length |->
     IF Len(v) > slice_length THEN v[j + Len(v) - slice_length]
     ELSE IF j <= Len(v) THEN v[j] ELSE 0]

\* BoolArray.__setitem__(slice(start, stop), v): v is cut to the length of
\* the slice or extended by zeros, then stored by the bitarray; exc is the
\* exception raised, bits the array afterwards.
BoolArrayFit(v, slice_length) == [j \in 1..slice_length |-> IF j <= Len(v) THEN v[j] ELSE 0]
BoolArraySetSlice(bits, start, stop, v) ==
  LET slice_length == IF stop > start THEN stop - start + 1 ELSE start - stop + 1
      w == BoolArrayFit(v, slice_length)
      lower == IF stop > Len(bits) THEN Len(bits) ELSE stop
      upper == IF start + 1 > Len(bits) THEN Len(bits) ELSE start + 1
  IN  IF start < stop
      THEN IF stop > Len(bits) - 1 THEN [bits |-> bits, exc |-> "ValueError"]
           ELSE [bits |-> [k \in 1..Len(bits) |->
                             IF k >= start + 1 /\ k <= stop + 1 THEN w[stop + 2 - k]
                             ELSE bits[k]],
                 exc |-> ""]
      ELSE [bits |-> SubSeq(bits, 1, lower) \o w \o SubSeq(bits, upper + 1, Len(bits)),
            exc |-> ""]

\* BoolArray.__setitem__(None, v): all bits are cleared, then the low bits
\* are taken from v
BoolArraySetAll(bits, v) ==
  LET n == IF Len(v) < Len(bits) THEN Len(v) ELSE Len(bits)
  IN  IF n = 0 THEN [bits |-> BoolArrayZeros(Len(bits)), exc |-> "ValueError"]
      ELSE BoolArraySetSlice(BoolArrayZeros(Len(bits)), n - 1, 0, v)

\* BoolArray.__setitem__(i, v) for an int i
BoolArraySetBit(bits, i, v) ==
  IF v.t \notin {"Bool", "Any"} THEN [bits |-> bits, exc |-> "StaplValueError"]
  ELSE IF i < 0 \/ i >= Len(bits) THEN [bits |-> bits, exc |-> "IndexError"]
  ELSE IF v.v \notin {0, 1} THEN [bits |-> bits, exc |-> "ValueError"]
  ELSE [bits |-> [bits EXCEPT ![i + 1] = v.v], exc |-> ""]

\* An extend that puts the zeros below the bits.
BoolArrayExtendLow(bits, length) ==
  [k \in 1..(IF Len(bits) < length THEN length ELSE Len(bits)) |->
     IF k > length - Len(bits) /\ length >= Len(bits) THEN bits[k - (length - Len(bits))]
     ELSE IF length < Len(bits) THEN bits[k] ELSE 0]

\* BoolArray.extend(length)
BoolArrayExtend(bits, length) ==
  [k \in 1..(IF Len(bits) < length THEN length ELSE Len(bits)) |->
     IF k <= Len(bits) THEN bits[k] ELSE 0]

\* BoolArray.__and__: the bitarrays are of one length, or ValueError
BoolArrayAnd(a, b) == [k \in 1..Len(a) |-> IF a[k] = 1 /\ b[k] = 1 THEN 1 ELSE 0]

\* data.Int(v) and data.Bool(v): whether the constructor accepts v
Accepts(t, v) ==
  CASE t = "Int" -> v.t \in {"Any", "Int"}
    [] t = "Bool" -> v.t \in {"Any", "Bool"} /\ v.v \in {0, 1}
    [] OTHER -> TRUE
\* A Variable.assign that stores the value as it is given.
ConvertedAsGiven(old, v) == v

\* Variable.assign: a variable that holds an Any takes the value as it
\* is, any other converts it to the type it holds.
Converted(old, v) == IF old.t = "Any" THEN v ELSE [t |-> old.t, v |-> v.v]

\* StaplInterpreter._assign to a scalar: scope[name].assign(value)
Assign(si, name, v) ==
  IF name \notin DOMAIN si.state.scope THEN Throw(si, "VariableNotDefined", name)
  ELSE IF ~Accepts(ValueOf(si, name).t, v) THEN Throw(si, "StaplValueError", name)
  ELSE LET var == si.state.scope[name]
           new == Converted(ValueOf(si, name), v)
       IN  IF var.owner = ""
           THEN Continue([si EXCEPT !.state.scope[name] = Variable(new)])
           ELSE Continue([si EXCEPT !.data_scopes[var.owner][name] = Variable(new)])

\* The Variable bound to name takes the value v: the object is the frame's
\* own or the one of a data scope
Stored(si, name, v) ==
  IF si.state.scope[name].owner = ""
  THEN [si EXCEPT !.state.scope[name] = Variable(v)]
  ELSE [si EXCEPT !.data_scopes[si.state.scope[name].owner][name] = Variable(v)]

\* Variable.assign(first, value) and Variable.assign(slice, value) of a
\* scalar: the first argument is what is converted and stored
AssignScalarAt(si, name, first, sliced) ==
  LET t == ValueOf(si, name).t
  IN  IF t = "Any" THEN Throw(si, "AssertionError", "")
      ELSE IF sliced THEN Throw(si, "StaplValueError", name)
      ELSE IF t = "Bool" /\ first \notin {0, 1} THEN Throw(si, "StaplValueError", name)
      ELSE Continue(Stored(si, name, [t |-> t, v |-> first]))

\* ArrayVariable.assign: BoolArray.__setitem__ with None, an int or a slice
AssignArray(si, name, index, first, last, v) ==
  LET bits == ValueOf(si, name).v
      Done(r) == IF r.exc # "" THEN Throw(Stored(si, name, BoolArray(r.bits)), r.exc, name)
                 ELSE Continue(Stored(si, name, BoolArray(r.bits)))
  IN  CASE index = "element" -> Done(BoolArraySetBit(bits, first, v))
        [] index = "slice" ->
             IF v.t # "BoolArray" THEN Throw(si, "StaplValueError", name)
             ELSE Done(BoolArraySetSlice(bits, first, last, v.v))
        [] OTHER ->
             IF v.t # "BoolArray"
             THEN Throw(Stored(si, name, BoolArray(BoolArrayZeros(Len(bits)))), "TypeError", name)
             ELSE Done(BoolArraySetAll(bits, v.v))

\* StaplInterpreter._assign(variable, value)
AssignVariable(si, variable, v) ==
  LET index == IF variable.last # NoExpr THEN "slice"
               ELSE IF variable.first # NoExpr THEN "element" ELSE "none"
      parts == IF index = "slice" THEN <<variable.first, variable.last>>
               ELSE IF index = "element" THEN <<variable.first>> ELSE <<>>
      first == IF index = "none" THEN 0 ELSE Evaluate(si, variable.first).v
      last == IF index = "slice" THEN Evaluate(si, variable.last).v ELSE 0
  IN  IF \E k \in 1..Len(parts) : ~Evaluable(si, parts[k])
      THEN Throw(si, "VariableNotDefined", NotDefined(si, parts))
      ELSE IF variable.name \notin DOMAIN si.state.scope
      THEN Throw(si, "VariableNotDefined", variable.name)
      ELSE IF ValueOf(si, variable.name).t = "BoolArray"
      THEN AssignArray(si, variable.name, index, first, last, v)
      ELSE IF index = "none" THEN Assign(si, variable.name, v)
      ELSE AssignScalarAt(si, variable.name, first, index = "slice")

\* BooleanInstruction
ExecuteBoolean(si, instruction) ==
  IF instruction.value # NoExpr /\ instruction.length < 0 /\ ~Evaluable(si, instruction.value)
  THEN Throw(si, "VariableNotDefined", instruction.value.name)
  ELSE IF instruction.value # NoExpr /\ instruction.length >= 0
          /\ instruction.value.e = "variable"
  THEN Throw(si, "VariableNotDefined", instruction.value.name)
  ELSE IF instruction.length < 0
  THEN Continue([si EXCEPT !.state.scope =
                   Bind(@, instruction.name,
                        Variable(IF instruction.value = NoExpr THEN BoolVal(0)
                                 ELSE Evaluate(si, instruction.value)))])
  ELSE IF instruction.value # NoExpr
  THEN (IF Evaluate(si, instruction.value).t # "BoolArray"
        THEN Throw(si, "AssertionError", "")
        ELSE Continue([si EXCEPT !.state.scope =
                         Bind(@, instruction.name, Variable(Evaluate(si, instruction.value)))]))
  ELSE Continue([si EXCEPT !.state.scope =
                   Bind(@, instruction.name,
                        Variable(BoolArray(BoolArrayZeros(instruction.length))))])

\* The result of COMPARE with a mask that is not applied
ScanCompareUnmasked(out_array, compare_array, compare_mask_array) ==
  IF out_array = compare_array THEN BoolVal(1) ELSE BoolVal(0)

\* out_array & compare_mask_array == compare_array & compare_mask_array
ScanCompare(out_array, compare_array, compare_mask_array) ==
  IF BoolArrayAnd(out_array, compare_mask_array)
       = BoolArrayAnd(compare_array, compare_mask_array)
  THEN BoolVal(1) ELSE BoolVal(0)

\* DrScanInstruction and IrScanInstruction: the data is brought to the
\* length of the scan, shifted through the controller, and what comes
\* back is captured and compared.
ExecuteScan(si, instruction) ==
  LET ir == instruction.op = "IRSCAN"
      length == Evaluate(si, instruction.length).v
      in_array == Evaluate(si, instruction.data_array)
      \* in_array.extend(length) extends the object the variable holds
      Extended(s) ==
        IF ~ir /\ Len(in_array.v) < length /\ instruction.data_array.e = "variable"
        THEN Stored(s, instruction.data_array.name,
                    BoolArray(BoolArrayExtend(in_array.v, length)))
        ELSE s
      bits == IF Len(in_array.v) < length THEN BoolArrayExtend(in_array.v, length)
              ELSE IF Len(in_array.v) > length THEN BoolArrayGetSlice(in_array.v, length - 1, 0)
              ELSE in_array.v
      Compared(s, out_array) ==
        IF instruction.compare_array = NoExpr THEN Continue(s)
        ELSE IF ~Evaluable(s, instruction.compare_array)
                \/ ~Evaluable(s, instruction.compare_mask_array)
        THEN Throw(s, "VariableNotDefined",
                   NotDefined(s, <<instruction.compare_array, instruction.compare_mask_array>>))
        ELSE LET compare_array == Evaluate(s, instruction.compare_array)
                 compare_mask_array == Evaluate(s, instruction.compare_mask_array)
             IN  IF compare_array.t # "BoolArray" \/ compare_mask_array.t # "BoolArray"
                 THEN Throw(s, "TypeError", "")
                 ELSE IF Len(compare_mask_array.v) # Len(out_array)
                         \/ Len(compare_mask_array.v) # Len(compare_array.v)
                 THEN Throw(s, "ValueError", "")
                 ELSE AssignVariable(s, instruction.compare_result,
                        ScanCompare(out_array, compare_array.v, compare_mask_array.v))
      Captured(s, out_array) ==
        IF instruction.capture_array = NoVariable THEN Compared(s, out_array)
        ELSE LET r == AssignVariable(s, instruction.capture_array, BoolArray(out_array))
             IN  IF r.exc # "" THEN r ELSE Compared(r.si, out_array)
      Scanned(s, r) ==
        IF r.err # "" THEN Throw([s EXCEPT !.ctl = r.c], r.err, "")
        ELSE Captured([s EXCEPT !.ctl = r.c,
                                !.scans = Append(@, [op |-> instruction.op, tdi |-> bits,
                                                     end_state |-> IF ir THEN si.ir_stop
                                                                   ELSE si.dr_stop,
                                                     tdo |-> r.ret])],
                      r.ret)
  IN  IF ~Evaluable(si, instruction.data_array) \/ ~Evaluable(si, instruction.length)
      THEN Throw(si, "VariableNotDefined",
                 NotDefined(si, <<instruction.data_array, instruction.length>>))
      ELSE IF in_array.t # "BoolArray" THEN Throw(si, "TypeError", "")
      ELSE IF ir /\ Len(in_array.v) < length THEN Throw(si, "StaplError", "size")
      ELSE Scanned(Extended(si),
                   IF ir THEN IrScan(si.ctl, bits, si.ir_stop)
                   ELSE DrScan(si.ctl, bits, si.dr_stop))

RECURSIVE UsesCopy(_, _)
\* ProcedureInstruction that gives the procedure copies of the variables
\* of the data scopes it uses.
UsesCopy(si, deps) ==
  IF deps = <<>> THEN Continue(si)
  ELSE LET dep == Head(deps)
           proc == dep \in DOMAIN si.stapl.procedures
           data == dep \in DOMAIN si.data_scopes
       IN  IF ~proc /\ ~data THEN Throw(si, "StaplError", "Dependency not found")
           ELSE IF proc /\ data THEN Throw(si, "StaplError", "Dependency is ambiguous")
           ELSE IF data
           THEN UsesCopy([si EXCEPT !.state.scope =
                            ScopeUpdate(@, [n \in DOMAIN si.data_scopes[dep] |->
                                              Variable(si.data_scopes[dep][n].v)])],
                         Tail(deps))
           ELSE UsesCopy(si, Tail(deps))

\* ProcedureInstruction: every dependency named by USES is looked up among
\* the procedures and the data scopes; a data scope is taken over.
RECURSIVE Uses(_, _)
Uses(si, deps) ==
  IF deps = <<>> THEN Continue(si)
  ELSE LET dep == Head(deps)
           proc == dep \in DOMAIN si.stapl.procedures
           data == dep \in DOMAIN si.data_scopes
       IN  IF ~proc /\ ~data THEN Throw(si, "StaplError", "Dependency not found")
           ELSE IF proc /\ data THEN Throw(si, "StaplError", "Dependency is ambiguous")
           ELSE IF data
           THEN Uses([si EXCEPT !.state.scope =
                        ScopeUpdate(@, [n \in DOMAIN si.data_scopes[dep] |-> Shared(dep)])],
                     Tail(deps))
           ELSE Uses(si, Tail(deps))

\* NextInstruction that goes round again only while the value after the
\* step is still before the end
ExecuteNextExclusive(si, instruction) ==
  IF si.state.loop_stack = <<>> THEN Throw(si, "StaplError", "NEXT without FOR")
  ELSE LET loop == si.state.loop_stack[Len(si.state.loop_stack)]
           Again(cur) ==
             IF (loop.step.v > 0 /\ cur.v + loop.step.v < loop.end.v)
                \/ (loop.step.v < 0 /\ cur.v + loop.step.v > loop.end.v)
             THEN LET r == Assign(si, loop.var, IntVal(cur.v + loop.step.v))
                  IN  IF r.exc # "" THEN r
                      ELSE Continue([r.si EXCEPT !.state.pc = loop.first_pc])
             ELSE Continue([si EXCEPT !.state.loop_stack = SubSeq(@, 1, Len(@) - 1)])
       IN  IF instruction.var # loop.var
           THEN Throw(si, "StaplError", "NEXT variable doesn't match FOR variable")
           ELSE IF loop.var \notin DOMAIN si.state.scope
           THEN Throw(si, "VariableNotDefined", loop.var)
           ELSE Again(ValueOf(si, loop.var))

\* NextInstruction
ExecuteNext(si, instruction) ==
  IF si.state.loop_stack = <<>> THEN Throw(si, "StaplError", "NEXT without FOR")
  ELSE LET loop == si.state.loop_stack[Len(si.state.loop_stack)]
           Again(cur) ==
             IF (loop.step.v > 0 /\ cur.v < loop.end.v) \/ (loop.step.v < 0 /\ cur.v > loop.end.v)
             THEN LET r == Assign(si, loop.var, IntVal(cur.v + loop.step.v))
                  IN  IF r.exc # "" THEN r
                      ELSE Continue([r.si EXCEPT !.state.pc = loop.first_pc])
             ELSE Continue([si EXCEPT !.state.loop_stack = SubSeq(@, 1, Len(@) - 1)])
       IN  IF instruction.var # loop.var
           THEN Throw(si, "StaplError", "NEXT variable doesn't match FOR variable")
           ELSE IF loop.var \notin DOMAIN si.state.scope
           THEN Throw(si, "VariableNotDefined", loop.var)
           ELSE Again(ValueOf(si, loop.var))

\* DrStopInstruction and IrStopInstruction with no check of the state
ExecuteStopAny(si, instruction) ==
  IF instruction.op = "DRSTOP" THEN Continue([si EXCEPT !.dr_stop = instruction.state])
  ELSE Continue([si EXCEPT !.ir_stop = instruction.state])

\* DrStopInstruction and IrStopInstruction
ExecuteStop(si, instruction) ==
  IF instruction.state \in {TEST_LOGIC_RESET, RUN_TEST_IDLE, PAUSE_IR, PAUSE_DR}
  THEN (IF instruction.op = "DRSTOP" THEN Continue([si EXCEPT !.dr_stop = instruction.state])
        ELSE Continue([si EXCEPT !.ir_stop = instruction.state]))
  ELSE Throw(si, "InvalidState", "Invalid state")

\* CallInstruction with a callee that starts in the scope of its caller
ExecuteCallInScope(si, instruction) ==
  IF instruction.procedure \in DOMAIN si.stapl.procedures
  THEN Continue([si EXCEPT
         !.call_stack = Append(@, si.state),
         !.state = [NewState(si.stapl.procedures[instruction.procedure],
                             instruction.procedure) EXCEPT !.scope = si.state.scope]])
  ELSE Throw([si EXCEPT !.call_stack = Append(@, si.state)], "KeyError",
             instruction.procedure)

\* CallInstruction: the frame is pushed, then the procedure is looked up
ExecuteCall(si, instruction) ==
  IF instruction.procedure \in DOMAIN si.stapl.procedures
  THEN Continue([si EXCEPT
         !.call_stack = Append(@, si.state),
         !.state = NewState(si.stapl.procedures[instruction.procedure],
                            instruction.procedure)])
  ELSE Throw([si EXCEPT !.call_stack = Append(@, si.state)], "KeyError",
             instruction.procedure)

\* EndProcedureInstruction
ExecuteEndProcedure(si) ==
  IF Len(si.call_stack) > 0
  THEN Continue([si EXCEPT
         !.state = si.call_stack[Len(si.call_stack)],
         !.call_stack = SubSeq(@, 1, Len(@) - 1)])
  ELSE Return(si)

\* StaplInterpreter.execute(): the statement at state.pc is fetched,
\* state.pc is advanced and the statement is executed.
Execute(si0) ==
  IF si0.state.pc >= Len(si0.stapl.statements) THEN Throw(si0, "AssertionError", "")
  ELSE
  LET instruction == si0.stapl.statements[si0.state.pc + 1]
      si == [si0 EXCEPT !.state.pc = @ + 1, !.log = Append(@, si0.state.pc)]
  IN  CASE instruction.op = "ASSIGN" ->
             IF Evaluable(si, instruction.value)
             THEN AssignVariable(si, instruction.variable, Evaluate(si, instruction.value))
             ELSE Throw(si, "VariableNotDefined", instruction.value.name)
        [] instruction.op = "BOOLEAN" -> ExecuteBoolean(si, instruction)
        [] instruction.op = "CALL" -> ExecuteCall(si, instruction)
        [] instruction.op = "DATA" -> Continue(si)
        [] instruction.op \in {"DRSCAN", "IRSCAN"} -> ExecuteScan(si, instruction)
        [] instruction.op \in {"DRSTOP", "IRSTOP"} -> ExecuteStop(si, instruction)
        [] instruction.op = "ENDDATA" -> Return(si)
        [] instruction.op = "ENDPROC" -> ExecuteEndProcedure(si)
        [] instruction.op = "EXIT" ->
             IF Evaluable(si, instruction.exit_code)
             THEN StaplExitCode(si, Evaluate(si, instruction.exit_code).v)
             ELSE Throw(si, "VariableNotDefined", instruction.exit_code.name)
        [] instruction.op = "FOR" ->
             IF \A expr \in {instruction.start, instruction.step, instruction.end} :
                  Evaluable(si, expr)
             THEN Continue([si EXCEPT
                    !.state.loop_stack =
                       Append(@, [var |-> instruction.var,
                                  step |-> Evaluate(si, instruction.step),
                                  end |-> Evaluate(si, instruction.end),
                                  first_pc |-> si.state.pc]),
                    !.state.scope = Bind(@, instruction.var,
                                         Variable(Evaluate(si, instruction.start)))])
             ELSE Throw(si, "VariableNotDefined",
                        NotDefined(si, <<instruction.start, instruction.step, instruction.end>>))
        [] instruction.op = "FREQUENCY" ->
             IF ~Evaluable(si, instruction.frequency)
             THEN Throw(si, "VariableNotDefined", instruction.frequency.name)
             ELSE Continue([si EXCEPT
                    !.ctl = SetFrequency(@, Evaluate(si, instruction.frequency).v).c])
        [] instruction.op = "INTEGER" ->
             IF Evaluable(si, instruction.value)
             THEN Continue([si EXCEPT !.state.scope =
                              Bind(@, instruction.name, Variable(Evaluate(si, instruction.value)))])
             ELSE Throw(si, "VariableNotDefined", instruction.value.name)
        [] instruction.op = "NEXT" -> ExecuteNext(si, instruction)
        [] instruction.op = "POP" ->
             IF si.state.stack = <<>> THEN Throw(si, "IndexError", "pop from empty list")
             ELSE Assign([si EXCEPT !.state.stack = SubSeq(@, 1, Len(@) - 1)],
                         instruction.variable, si.state.stack[Len(si.state.stack)])
        [] instruction.op = "PROCEDURE" ->
             IF DOMAIN si.state.scope # {} THEN Throw(si, "AssertionError", "")
             ELSE Uses(si, instruction.uses)
        [] instruction.op = "PUSH" ->
             IF Evaluable(si, instruction.value)
             THEN Continue([si EXCEPT !.state.stack = Append(@, Evaluate(si, instruction.value))])
             ELSE Throw(si, "VariableNotDefined", instruction.value.name)
        [] OTHER -> Throw(si, "NotImplementedError", instruction.op)

\* The exceptions derived from errors.StaplError
StaplErrors ==
  {"StaplError", "StaplExitCode", "VariableNotDefined", "StaplValueError", "InvalidState",
   "LabelNotDefined"}

\* run() has ended: by returning (result "done") or by an exception
Finished(si, result, exc, code, pc) ==
  [si EXCEPT !.running = FALSE, !.result = result, !.error = exc, !.code = code,
             !.pc = pc, !.datas = <<>>, !.procs = <<>>, !.block = ""]

\* _run_procedure(pc, procedure) starts: self.state = State(pc, procedure)
StartProcedure(si, pc, procedure) ==
  [si EXCEPT !.state = NewState(pc, procedure), !.entry = pc]

\* run() goes on to what it runs next: the next data block; after the
\* last one it looks the action up; then the next procedure of the action
\* whose category is in which.
RECURSIVE Advance(_)
Advance(si) ==
  IF si.datas # <<>>
  THEN StartProcedure([si EXCEPT !.datas = Tail(@), !.block = Head(si.datas)],
                      si.stapl.data_blocks[Head(si.datas)], "")
  ELSE IF ~si.looked
  THEN IF si.args.action \notin ActionNames(si.stapl)
       THEN Finished(si, "raised", "StaplError", 0, -1)
       ELSE Advance([si EXCEPT !.looked = TRUE,
                               !.procs = ActionOf(si.stapl, si.args.action).procedures])
  ELSE IF si.procs = <<>> THEN Finished(si, "done", "", 0, -1)
  ELSE LET procedure == Head(si.procs)[1]
           opt == Head(si.procs)[2]
       IN  IF opt \notin si.which THEN Advance([si EXCEPT !.procs = Tail(@)])
           ELSE IF procedure \notin DOMAIN si.stapl.procedures
           THEN Finished(si, "raised", "StaplError", 0, -1)
           ELSE StartProcedure([si EXCEPT !.procs = Tail(@), !.started = Append(@, procedure)],
                               si.stapl.procedures[procedure], procedure)

\* run(action, recommended, optional) up to the first statement it executes
Which(recommended, optional) ==
  {"required"} \cup (IF recommended THEN {"recommended"} ELSE {})
               \cup (IF optional THEN {"optional"} ELSE {})
InterpreterRun(si, action, recommended, optional) ==
  Advance([si EXCEPT
    !.ir_stop = RUN_TEST_IDLE, !.dr_stop = RUN_TEST_IDLE,
    !.which = Which(recommended, optional),
    !.running = TRUE, !.looked = FALSE, !.datas = si.stapl.data_order, !.procs = <<>>,
    !.block = "", !.result = "", !.error = "", !.code = 0, !.pc = -1,
    !.args = [action |-> action, recommended |-> recommended, optional |-> optional],
    !.log = <<>>, !.scans = <<>>, !.started = <<>>, !.depth = Len(si.call_stack)])
\* run(action)
InterpreterRunDefault(si, action) == InterpreterRun(si, action, TRUE, FALSE)

\* Step with an EXIT 0 that ends only the procedure it is in: run() goes
\* on with the next procedure of the action.
StepExitReturns(si) ==
  LET Returned(s) ==
        Advance([s EXCEPT !.state = NoState, !.block = "",
                          !.data_scopes = IF s.block = "" THEN @
                                          ELSE Bind(@, s.block, s.state.scope)])
      Raised(r) ==
        IF r.exc = "StaplExitCode" /\ r.si.block = "" /\ r.code = 0
        THEN Returned(r.si)
        ELSE Finished(r.si, "raised", r.exc, r.code,
                      IF r.exc \in StaplErrors THEN r.si.entry ELSE -1)
      Handle(r) == IF r.exc # "" THEN Raised(r)
                   ELSE IF r.more THEN r.si ELSE Returned(r.si)
  IN  Handle(Execute(si))

\* run() executes one statement inside _run_procedure and handles what
\* execute() returned or raised.
Step(si) ==
  LET Returned(s) ==
        Advance([s EXCEPT !.state = NoState, !.block = "",
                          !.data_scopes = IF s.block = "" THEN @
                                          ELSE Bind(@, s.block, s.state.scope)])
      Raised(r) ==
        IF r.exc = "StaplExitCode" /\ r.si.block = "" /\ r.code = 0
        THEN Finished(r.si, "done", "", 0, -1)
        ELSE Finished(r.si, "raised", r.exc, r.code,
                      IF r.exc \in StaplErrors THEN r.si.entry ELSE -1)
      Handle(r) == IF r.exc # "" THEN Raised(r)
                   ELSE IF r.more THEN r.si ELSE Returned(r.si)
  IN  Handle(Execute(si))

\* A host that has loaded no STAPL file
NoInterpreter == NewInterpreter(StaplFile(<<>>, <<>>))

(***************************************************************************)
(* The program: a host that builds a controller over a simulated chain,    *)
(* configures the chain and then calls the controller's operations, or     *)
(* runs tasks that share the controller through cycle().                   *)
(***************************************************************************)
VARIABLES
  ctl,       \* the TapController with its driver and chain
  loopback,  \* whether the transport loops every cell back to itself
  last,      \* the last operation: name, argument, state before, outcome, clocks
  nops,      \* operations called so far
  verbose,   \* whether last keeps the argument, the state before and the result
  tasks,     \* the tasks of the event loop
  ready,     \* the event loop's queue of ready tasks, head runs next
  hist,      \* the boundary-register scans performed by cycle(), in order
  interp     \* the STAPL interpreter

vars == <<ctl, loopback, last, nops, verbose, tasks, ready, hist, interp>>

\* The simulated chains: k successive devices of the ring A, B, C.
HwDevice(i) == CASE i % 3 = 1 -> "A" [] i % 3 = 2 -> "B" [] OTHER -> "C"
HwConfig(start, k) == [i \in 1..k |-> HwDevice(start + i - 1)]
HwConfigs == { HwConfig(start, k) : start \in 1..3, k \in 1..MaxDevices }
\* The chain of tests/test_chain.py: three devices, irlens 4, 6 and 8.
TestChain == <<"A", "B", "C">>
\* ... of which those that start with device A
HwConfigsA == { HwConfig(1, k) : k \in 1..MaxDevices }

Reverse(q) == [i \in 1..Len(q) |-> q[Len(q) + 1 - i]]

\* The chains the host configures for hardware hw: the hardware itself,
\* the hardware with one device described by another catalogue entry,
\* reversed, with the last device left out, or with one device too many.
ChainConfigs(hw) ==
  {hw, Reverse(hw), SubSeq(hw, 1, Len(hw) - 1), Append(hw, "A")}
    \cup { [hw EXCEPT ![i] = id] : i \in 1..Len(hw), id \in DeviceIds }

RECURSIVE AddDevices(_, _)
\* add_device called for each device of ids in turn
AddDevices(c, ids) ==
  IF ids = <<>> THEN c ELSE AddDevices(AddDevice(c, Head(ids)).c, Tail(ids))

\* The host's set-up, as in tests/test_chain.py: the controller built,
\* the devices ids added, and (stage 1) validate_chain() called, and
\* (stage 2) extest() called after it.
Setup(hw, ids, stage, lb) ==
  LET Validated(c1) == IF stage = 1 THEN c1 ELSE Extest(c1, lb).c
      Added(c0) == IF stage = 0 THEN c0 ELSE Validated(ValidateChain(c0).c)
  IN  Added(AddDevices(NewController(hw), ids))

NoOp ==
  [op |-> "init", arg |-> <<>>, from |-> TEST_LOGIC_RESET, err |-> "", ret |-> <<>>,
   tck |-> 0, tms1 |-> 0, calls |-> <<>>]

NoTasks ==
  /\ tasks = <<>>
  /\ ready = <<>>
  /\ hist = <<>>

Init ==
  /\ \E hw \in HwConfigsA : \E stage \in {0, 2} :
       ctl = Quiet(Setup(hw, hw, stage, FALSE))
  /\ loopback = FALSE
  /\ last = NoOp
  /\ nops = 0
  /\ interp = NoInterpreter
  /\ verbose = FALSE
  /\ NoTasks

\* The host has called operation op with argument arg: r is what it did.
Call(op, arg, r) ==
  /\ ctl' = Quiet(r.c)
  /\ last' = IF verbose
             THEN [op |-> op, arg |-> arg, from |-> ctl.state, err |-> r.err,
                   ret |-> r.ret, tck |-> r.c.sims[1].tck, tms1 |-> r.c.sims[1].tms1,
                   calls |-> r.c.calls]
             ELSE [NoOp EXCEPT !.op = op, !.err = r.err]
  /\ nops' = nops + 1
  /\ UNCHANGED <<loopback, verbose, tasks, ready, hist, interp>>

\* Arguments the host passes
ScanArgs == { <<<<1>>, None>>, <<<<0, 1>>, PAUSE_DR>>, <<<<>>, RUN_TEST_IDLE>> }

DoReset ==
  /\ nops < MaxOps
  /\ Call("reset", <<>>, Reset(ctl))

DoEnterState ==
  /\ nops < MaxOps
  /\ \E s \in State : Call("enter_state", s, EnterState(ctl, s))

DoAddDevice ==
  /\ nops < MaxOps
  /\ Len(ctl.chain) <= MaxDevices
  /\ Call("add_device", "A", AddDevice(ctl, "A"))

DoLoadInstruction ==
  /\ nops < MaxOps
  /\ \E i \in Opcode : Call("load_instruction", i, LoadInstruction(ctl, i))

DoReadRegister ==
  /\ nops < MaxOps
  /\ \E n \in {0, 1, 2} : Call("read_register", n, ReadRegister(ctl, n))

DoWriteRegister ==
  /\ nops < MaxOps
  /\ \E b \in {<<1>>, <<0, 1>>} : Call("write_register", b, WriteRegister(ctl, b))

DoReadWriteRegister ==
  /\ nops < MaxOps
  /\ \E b \in {<<>>, <<1, 0>>} :
       Call("read_write_register", b, ReadWriteRegister(ctl, b))

DoDetectChain ==
  /\ nops < MaxOps
  /\ Call("detect_chain", <<>>, DetectChain(ctl))

DoValidateChain ==
  /\ nops < MaxOps
  /\ Call("validate_chain", <<>>, ValidateChain(ctl))

DoExtest ==
  /\ nops < MaxOps
  /\ Call("extest", <<>>, Extest(ctl, loopback))

\* cycle() called by the only task there is: it scans
DoCycle ==
  /\ nops < MaxOps
  /\ Call("cycle", <<>>, CycleScan(ctl, loopback))

DoWait ==
  /\ nops < MaxOps
  /\ \E n \in {0, 2} : Call("wait", n, Wait(ctl, n))

DoIrScan ==
  /\ nops < MaxOps
  /\ \E a \in ScanArgs : Call("ir_scan", a, IrScan(ctl, a[1], a[2]))

DoDrScan ==
  /\ nops < MaxOps
  /\ \E a \in ScanArgs : Call("dr_scan", a, DrScan(ctl, a[1], a[2]))

Next ==
  \/ DoReset
  \/ DoEnterState
  \/ DoAddDevice
  \/ DoLoadInstruction
  \/ DoReadRegister
  \/ DoWriteRegister
  \/ DoReadWriteRegister
  \/ DoDetectChain
  \/ DoValidateChain
  \/ DoExtest
  \/ DoCycle
  \/ DoWait
  \/ DoIrScan
  \/ DoDrScan

\* Any sequence of at most MaxOps operations after the set-up.
Spec == Init /\ [][Next]_vars

(***************************************************************************)
(* The validated flag: add_device, validate_chain and the operations that  *)
(* test the flag, after either set-up.                                     *)
(***************************************************************************)
InitGate ==
  /\ \E hw \in HwConfigsA : \E stage \in {0, 2} :
       ctl = Quiet(Setup(hw, hw, stage, FALSE))
  /\ loopback = FALSE
  /\ last = NoOp
  /\ nops = 0
  /\ interp = NoInterpreter
  /\ verbose = TRUE
  /\ NoTasks

NextGate ==
  \/ DoAddDevice
  \/ DoValidateChain
  \/ DoLoadInstruction
  \/ DoReadRegister
  \/ DoWriteRegister
  \/ DoReadWriteRegister
  \/ DoExtest
  \/ DoCycle

SpecGate == InitGate /\ [][NextGate]_vars

(***************************************************************************)
(* Scans: ir_scan and dr_scan from every state, on a fresh controller and  *)
(* on one whose chain is in EXTEST.                                        *)
(***************************************************************************)
\* The bit strings scanned: one bit, two bits, and more bits than the
\* shortest register holds.
ScanBits == { <<1>>, <<0, 1>>, <<1, 0, 1, 1, 0>> }
\* The end states passed: none, and the states a scan can be parked in.
ScanEnds == { None, RUN_TEST_IDLE, PAUSE_DR, PAUSE_IR }

InitScan ==
  /\ \E hw \in HwConfigsA : \E stage \in {0, 2} :
       ctl = Quiet(Setup(hw, hw, stage, FALSE))
  /\ loopback = FALSE
  /\ last = NoOp
  /\ nops = 0
  /\ interp = NoInterpreter
  /\ verbose = TRUE
  /\ NoTasks

DoIrScanTo ==
  /\ nops < MaxOps
  /\ \E b \in ScanBits : \E e \in ScanEnds :
       Call("ir_scan", <<b, e>>, IrScan(ctl, b, e))

DoDrScanTo ==
  /\ nops < MaxOps
  /\ \E b \in ScanBits : \E e \in ScanEnds :
       Call("dr_scan", <<b, e>>, DrScan(ctl, b, e))

NextScan ==
  \/ DoEnterState
  \/ DoIrScanTo
  \/ DoDrScanTo

SpecScan == InitScan /\ [][NextScan]_vars

(***************************************************************************)
(* Chain failures: detect_chain and validate_chain from every state, on    *)
(* sound chains, on chains with a stuck TDO, on a chain as long as the     *)
(* detection limit, and on chains the host has described wrongly.          *)
(* Each entry is <<the devices there are, the devices the host adds>>.     *)
(***************************************************************************)
FaultyChains ==
  { << <<"A">>, <<"A">> >>, << <<"A", "B">>, <<"A", "B">> >>,
    << <<"S0">>, <<"A">> >>, << <<"S1">>, <<"A">> >>,
    << <<"A", "S1">>, <<"A", "A">> >>, << <<"S1", "B">>, <<"A", "B">> >>,
    << <<"L">>, <<"L">> >>,
    << <<"A">>, <<"B">> >>, << <<"A", "B">>, <<"A">> >>,
    << <<"A">>, <<"A2">> >>, << <<"A", "A">>, <<"A", "A2">> >> }

InitFault ==
  /\ \E f \in FaultyChains : ctl = Quiet(AddDevices(NewController(f[1]), f[2]))
  /\ loopback = FALSE
  /\ last = NoOp
  /\ nops = 0
  /\ interp = NoInterpreter
  /\ verbose = TRUE
  /\ NoTasks

NextFault ==
  \/ DoEnterState
  \/ DoDetectChain
  \/ DoValidateChain

SpecFault == InitFault /\ [][NextFault]_vars

(***************************************************************************)
(* Routing: enter_state from every state.                                  *)
(***************************************************************************)
InitRoute ==
  /\ \E hw \in HwConfigsA : \E s \in State :
       /\ ctl = Quiet(EnterState(NewController(hw), s).c)
       /\ last = [NoOp EXCEPT !.op = "enter_state", !.arg = s]
  /\ loopback = FALSE
  /\ nops = 0
  /\ interp = NoInterpreter
  /\ verbose = TRUE
  /\ NoTasks

SpecRoute == InitRoute /\ [][DoEnterState]_vars

(***************************************************************************)
(* Chain handling: detect_chain, validate_chain and load_instruction on    *)
(* every simulated chain and every configuration of it.                    *)
(***************************************************************************)
InitChain ==
  /\ \/ \E hw \in HwConfigs : \E ids \in ChainConfigs(hw) :
          ctl = Quiet(AddDevices(NewController(hw), ids))
     \/ ctl = Quiet(AddDevices(NewController(TestChain), TestChain))
  /\ loopback = FALSE
  /\ last = NoOp
  /\ nops = 0
  /\ interp = NoInterpreter
  /\ verbose = TRUE
  /\ NoTasks

NextChain ==
  \/ DoDetectChain
  \/ DoValidateChain
  \/ DoLoadInstruction

SpecChain == InitChain /\ [][NextChain]_vars

(***************************************************************************)
(* Tasks sharing the controller through cycle(), as tests/test_async.py    *)
(* runs them: the event loop runs the task at the head of its ready queue  *)
(* up to the task's next await and queues it again at the tail.            *)
(* A task is                                                               *)
(*   count, i       range(count) of its loop and the loop variable         *)
(*   suspends       whether it awaits once more after each cycle()         *)
(*   cell           <<device, cell>> of its output pin                     *)
(*   pc             "new", "cycle" (inside cycle(), after the await),      *)
(*                  "sleep" (in its own await), "done" or "failed"         *)
(*   cycle_counter  the local variable of cycle()                          *)
(* and, observed for the pending call: called (scans done when it was      *)
(* made), wrote (the value set before it), clobbered (another task has set *)
(* the same cell since); and for the last call that returned: span (scans  *)
(* between call and return), sent, scan (the scans done at its return) and *)
(* seen (the in_values read on return).                                    *)
(***************************************************************************)
NewTask(count, suspends, cell) ==
  [ count |-> count, i |-> 0, suspends |-> suspends, cell |-> cell,
    pc |-> "new", cycle_counter |-> 0,
    called |-> 0, wrote |-> None, clobbered |-> FALSE,
    span |-> None, sent |-> None, prior |-> None, scan |-> 0, seen |-> <<>> ]

\* The n-th cell of the chain, counting device 0's cells first.
CellAt(chain, n) ==
  LET RECURSIVE At(_, _)
      At(d, k) == IF k <= Len(chain[d].out) THEN <<d, k>>
                  ELSE At(d + 1, k - Len(chain[d].out))
  IN  At(1, n)

\* The output pin task t is given: the tasks take the cells in turn.
TaskCell(chain, t) == CellAt(chain, ((t - 1) % ChainBrLen(chain)) + 1)

\* A set_value that is lost.
SetValueLost(chain, cell, value) == chain

\* Pin.set_value(value) on the pin whose output cell is cell
SetValue(chain, cell, value) ==
  [chain EXCEPT ![cell[1]].out[cell[2]] = IF value # 0 THEN 1 ELSE 0]

\* Pin.get_value() of every cell: the in_values a task can read
InValues(chain) == [d \in 1..Len(chain) |-> chain[d].in]
OutValues(chain) == [d \in 1..Len(chain) |-> chain[d].out]

\* A cycle() that scans on every call.
CycleAlwaysScan(cycle_counter, counter) == TRUE

\* A cycle() that scans only when another task has scanned meanwhile.
CycleScanWhenStale(cycle_counter, counter) == cycle_counter # counter

\* "if cycle_counter == self.cycle_counter" of cycle()
CycleMustScan(cycle_counter, counter) == cycle_counter = counter

\* Whether task u is inside cycle() and no scan has released it yet.
Pending(w, u) ==
  /\ w.tasks[u].pc = "cycle"
  /\ w.tasks[u].cycle_counter = w.ctl.cycle_counter

\* Task t runs from the top of its loop to its next await: it sets its
\* pin to (i & 1), task 2 to the opposite, and calls cycle(), which takes
\* its copy of cycle_counter and awaits; or its loop has ended.
\* w is [ctl, tasks, ready, hist].
TaskRun(w, t) ==
  LET tk == w.tasks[t]
      value == (tk.i + t - 1) % 2
  IN  IF tk.i >= tk.count THEN [w EXCEPT !.tasks[t].pc = "done"]
      ELSE [w EXCEPT
              !.ctl.chain = SetValue(w.ctl.chain, tk.cell, value),
              !.tasks = [u \in DOMAIN w.tasks |->
                 IF u = t
                 THEN [tk EXCEPT !.pc = "cycle", !.wrote = value,
                                 !.clobbered = FALSE,
                                 !.cycle_counter = w.ctl.cycle_counter,
                                 !.called = Len(w.hist)]
                 ELSE IF Pending(w, u) /\ w.tasks[u].cell = tk.cell
                 THEN [w.tasks[u] EXCEPT !.clobbered = TRUE]
                 ELSE w.tasks[u]],
              !.ready = Append(w.ready, t)]

\* cycle() returns to task t, which reads the inputs and either awaits
\* once more or goes round its loop.
CycleReturn(w, t) ==
  LET tk == [w.tasks[t] EXCEPT
               !.i = @ + 1,
               !.span = Len(w.hist) - w.tasks[t].called,
               !.sent = w.tasks[t].wrote,
               !.prior = w.tasks[t].sent,
               !.scan = Len(w.hist),
               !.seen = InValues(w.ctl.chain)]
  IN  IF tk.suspends
      THEN [w EXCEPT !.tasks[t] = [tk EXCEPT !.pc = "sleep"],
                     !.ready = Append(w.ready, t)]
      ELSE TaskRun([w EXCEPT !.tasks[t] = tk], t)

\* The scan of cycle() by task t, then its return; an exception of the
\* scan ends the task.
CycleBody(w, t) ==
  LET r == CycleScan(w.ctl, loopback)
      scan == [ tdi |-> r.ret.tdi, tdo |-> r.ret.tdo, by |-> t,
                intact |-> { u \in DOMAIN w.tasks :
                               Pending(w, u) /\ ~w.tasks[u].clobbered },
                out |-> OutValues(w.ctl.chain), in |-> InValues(r.c.chain) ]
  IN  IF r.err # ""
      THEN [w EXCEPT !.ctl = r.c, !.tasks[t].pc = "failed"]
      ELSE CycleReturn([w EXCEPT !.ctl = r.c, !.hist = Append(w.hist, scan)], t)

\* The world the head of the ready queue runs in.
World == [ctl |-> ctl, tasks |-> tasks, ready |-> Tail(ready), hist |-> hist]

Run(w) ==
  /\ ctl' = Quiet(w.ctl)
  /\ tasks' = w.tasks
  /\ ready' = w.ready
  /\ hist' = w.hist
  /\ UNCHANGED <<loopback, last, nops, verbose, interp>>

\* The event loop starts a task.
TaskStart ==
  /\ ready # <<>>
  /\ tasks[Head(ready)].pc = "new"
  /\ Run(TaskRun(World, Head(ready)))

\* The event loop resumes a task inside cycle(); nobody has scanned since
\* it called: it scans.
TaskScan ==
  /\ ready # <<>>
  /\ tasks[Head(ready)].pc = "cycle"
  /\ CycleMustScan(tasks[Head(ready)].cycle_counter, ctl.cycle_counter)
  /\ Run(CycleBody(World, Head(ready)))

\* The event loop resumes a task inside cycle(); another task has scanned.
TaskShare ==
  /\ ready # <<>>
  /\ tasks[Head(ready)].pc = "cycle"
  /\ ~CycleMustScan(tasks[Head(ready)].cycle_counter, ctl.cycle_counter)
  /\ Run(CycleReturn(World, Head(ready)))

\* The event loop resumes a task from its own await.
TaskWake ==
  /\ ready # <<>>
  /\ tasks[Head(ready)].pc = "sleep"
  /\ Run(TaskRun(World, Head(ready)))

InitAsync ==
  /\ \E hw \in HwConfigsA : \E lb \in BOOLEAN :
       /\ ctl = Quiet(Setup(hw, hw, 2, lb))
       /\ loopback = lb
       /\ \E n \in 1..MaxTasks :
            \E count \in [1..n -> 0..MaxCycles] : \E suspends \in [1..n -> BOOLEAN] :
              /\ tasks = [t \in 1..n |->
                            NewTask(count[t], suspends[t], TaskCell(ctl.chain, t))]
              /\ ready = [t \in 1..n |-> t]
  /\ hist = <<>>
  /\ last = NoOp
  /\ nops = 0
  /\ interp = NoInterpreter
  /\ verbose = FALSE

NextAsync ==
  \/ TaskStart
  \/ TaskScan
  \/ TaskShare
  \/ TaskWake

SpecAsync == InitAsync /\ [][NextAsync]_vars

(***************************************************************************)
(* Boundary scan: the host sets pins, enters EXTEST, cycles the boundary   *)
(* register and loads instructions on a validated chain.                   *)
(***************************************************************************)
InitExtest ==
  /\ \E hw \in HwConfigsA : \E stage \in {1, 2} :
       ctl = Quiet(Setup(hw, hw, stage, FALSE))
  /\ loopback = FALSE
  /\ last = NoOp
  /\ nops = 0
  /\ interp = NoInterpreter
  /\ verbose = TRUE
  /\ NoTasks

\* Pin.set_value on one of the chain's pins
DoSetValue ==
  /\ nops < MaxOps
  /\ \E n \in 1..ChainBrLen(ctl.chain) : \E value \in {0, 1} :
       Call("set_value", <<CellAt(ctl.chain, n), value>>,
            Ok([ctl EXCEPT !.chain = SetValue(ctl.chain, CellAt(ctl.chain, n), value)],
               <<>>))

NextExtest ==
  \/ DoSetValue
  \/ DoExtest
  \/ DoCycle
  \/ DoLoadInstruction

SpecExtest == InitExtest /\ [][NextExtest]_vars

(***************************************************************************)
(* Pins: the host enables, disables and sets the pins of device P.         *)
(***************************************************************************)
InitPin ==
  /\ \E k \in 1..MaxDevices :
       ctl = Quiet(AddDevices(NewController([i \in 1..k |-> "P"]), [i \in 1..k |-> "P"]))
  /\ loopback = FALSE
  /\ last = NoOp
  /\ nops = 0
  /\ interp = NoInterpreter
  /\ verbose = TRUE
  /\ NoTasks

\* What a pin operation that returned r = [out, err] on device d leaves
PinResult(d, r) ==
  [c |-> [ctl EXCEPT !.chain[d].out = r.out], err |-> r.err, ret |-> <<>>]

DoOutputEnable ==
  /\ nops < MaxOps
  /\ \E d \in 1..Len(ctl.chain) : \E port \in Ports(CellsP) : \E enable \in BOOLEAN :
       Call("output_enable", <<d, port, enable>>,
            PinResult(d, PinOutputEnable(CellsP, ctl.chain[d].out, port, enable)))

DoPinSetValue ==
  /\ nops < MaxOps
  /\ \E d \in 1..Len(ctl.chain) : \E port \in Ports(CellsP) : \E value \in {0, 1} :
       Call("set_value", <<d, port, value>>,
            PinResult(d, PinSetValue(CellsP, ctl.chain[d].out, port, value)))

NextPin ==
  \/ DoOutputEnable
  \/ DoPinSetValue

SpecPin == InitPin /\ [][NextPin]_vars

(***************************************************************************)
(* Waiting: wait() in every state.                                         *)
(***************************************************************************)
NextWait ==
  \/ DoEnterState
  \/ DoWait

SpecWait == InitRoute /\ [][NextWait]_vars

(***************************************************************************)
(* Properties of the routing (SpecRoute)                                   *)
(***************************************************************************)
\* The states within n clock edges of the states in from, by the TAP's
\* transition table.
RECURSIVE Within(_, _)
Within(from, n) ==
  IF n = 0 THEN from
  ELSE Within(from \cup { NextState(s, tms) : s \in from, tms \in {0, 1} }, n - 1)

\* The least number of clock edges that take the TAP from state a to b.
Dist(a, b) ==
  CHOOSE n \in 0..Cardinality(State) :
    /\ b \in Within({a}, n)
    /\ \A m \in 0..(n - 1) : b \notin Within({a}, m)

\* C1: for every pair (from, to) of the 16 TAP states, enter_state(to)
\* called in state from terminates, every step of its route is an edge of
\* the TAP's transition table under the TMS bit emitted for it, and the
\* controller's state and the TAP's state are to afterwards.
C1_RouteLegal ==
  last.op = "enter_state" =>
    LET r == GotoRoute(last.from, last.arg)
    IN  /\ r.done
        /\ Len(r.path) = Len(r.tms) + 1
        /\ r.path[1] = last.from
        /\ \A k \in 1..Len(r.tms) :
             /\ r.tms[k] \in {0, 1}
             /\ r.path[k + 1] = NextState(r.path[k], r.tms[k])
        /\ r.path[Len(r.path)] = last.arg
        /\ ctl.state = last.arg
        /\ \A d \in 1..Len(ctl.sims) : ctl.sims[d].state = last.arg

\* enter_state(PAUSE_DR) called in SHIFT_IR has arrived.
C1_Witness ==
  /\ nops > 0
  /\ last.op = "enter_state"
  /\ last.from = SHIFT_IR
  /\ last.arg = PAUSE_DR
  /\ ctl.state = PAUSE_DR
  /\ ctl.sims[1].state = PAUSE_DR

\* C2: the TMS sequence enter_state emits from state from to state to has
\* the least length any TMS sequence from from to to can have; it is empty
\* when from = to.
C2_RouteShortest ==
  last.op = "enter_state" =>
    LET r == GotoRoute(last.from, last.arg)
    IN  /\ Len(r.tms) = Dist(last.from, last.arg)
        /\ (last.from = last.arg => r.tms = <<>>)

\* enter_state(UPDATE_DR) called in EXIT1_DR took the one-edge route.
C2_Witness ==
  /\ nops > 0
  /\ last.op = "enter_state"
  /\ last.from = EXIT1_DR
  /\ last.arg = UPDATE_DR
  /\ GotoRoute(last.from, last.arg).tms = <<1>>
  /\ ctl.state = UPDATE_DR

(***************************************************************************)
(* Properties of the controller under any sequence of operations (Spec)    *)
(***************************************************************************)
\* C3: after every sequence of controller operations, each of which
\* returned or raised, the state the controller records is the state
\* every TAP of the chain is in.
C3_StateTracked ==
  \A d \in 1..Len(ctl.sims) : ctl.sims[d].state = ctl.state

\* An operation raised after it had moved the TAP: dr_scan of an empty
\* string raises in SHIFT_DR, the second operation of the run.
C3_Witness ==
  /\ nops > 0
  /\ last.op = "dr_scan"
  /\ last.err = "IndexError"
  /\ ctl.state = SHIFT_DR
  /\ \A d \in 1..Len(ctl.sims) : ctl.sims[d].state = SHIFT_DR

(***************************************************************************)
(* Properties of chain handling (SpecChain)                                *)
(***************************************************************************)
\* The simulated devices behind the driver, and the sum of their irlens.
Hardware == [d \in 1..Len(ctl.sims) |-> ctl.sims[d].device]

HardwareIrLen ==
  LET RECURSIVE Sum(_)
      Sum(d) == IF d > Len(ctl.sims) THEN 0 ELSE Dev(Hardware[d]).irlen + Sum(d + 1)
  IN  Sum(1)

\* C8 as stated: after load_instruction(name) has returned on a validated
\* chain whose devices all support name, the controller is in UPDATE_IR
\* and the instruction register (Sim.ir) of every device holds that
\* device's opcode for name.
C8_Claim ==
  (last.op = "load_instruction" /\ last.err = "") =>
    /\ ctl.state = UPDATE_IR
    /\ \A d \in 1..Len(ctl.sims) :
         ctl.sims[d].ir = Dev(ctl.chain[d].id).opcodes[last.arg]

\* C8, what the code does instead: on return every device's shift stage
\* (Sim.shift_ir) holds its opcode, bit 0 shifted first, and Sim.ir takes
\* it only on the next clock, whichever TMS it carries.
C8_ShiftStageLoaded ==
  (last.op = "load_instruction" /\ last.err = "") =>
    /\ ctl.state = UPDATE_IR
    /\ Len(ctl.chain) = Len(ctl.sims)
    /\ \A d \in 1..Len(ctl.sims) :
         LET opcode == Dev(ctl.chain[d].id).opcodes[last.arg]
         IN  /\ ctl.sims[d].state = UPDATE_IR
             /\ ctl.sims[d].shift_ir = opcode
             /\ \A tms \in {0, 1} : SimTransfer(ctl.sims[d], tms, 0).sim.ir = opcode

\* load_instruction(SAMPLE) has returned on the validated chain A, B
\* (irlens 4 and 6).
C8_Witness ==
  /\ last.op = "load_instruction"
  /\ last.arg = "SAMPLE"
  /\ last.err = ""
  /\ Hardware = <<"A", "B">>
  /\ ctl.validated
  /\ ctl.sims[1].shift_ir = DevA.opcodes["SAMPLE"]
  /\ ctl.sims[2].shift_ir = DevB.opcodes["SAMPLE"]

\* C9: on a chain of N devices of total IR length L, detect_chain()
\* returns (N, L): (1, 8) for one device of irlen 8, (3, 18) for three
\* devices of irlens 4, 6 and 8.
C9_DetectChain ==
  last.op = "detect_chain" =>
    /\ last.err = ""
    /\ last.ret = <<Len(ctl.sims), HardwareIrLen>>
    /\ (Hardware = <<"C">> => last.ret = <<1, 8>>)
    /\ (Hardware = TestChain => last.ret = <<3, 18>>)

\* detect_chain() has returned (3, 18) on the three devices of irlens
\* 4, 6 and 8.
C9_Witness ==
  /\ last.op = "detect_chain"
  /\ Hardware = TestChain
  /\ <<DevA.irlen, DevB.irlen, DevC.irlen>> = <<4, 6, 8>>
  /\ last.ret = <<3, 18>>
  /\ ctl.state = TEST_LOGIC_RESET

\* Chain device i (from 1, nearest TDI) differs from the bits read at a
\* position of its 32-bit slice that is not X; device 1 has the highest
\* bit indices.
SliceDiffers(idcode, i) ==
  LET pattern == Dev(ctl.chain[i].id).idcode
      base == Len(idcode) - i * IdcodeLen
  IN  \E k \in 1..IdcodeLen :
        /\ pattern[k] # "X"
        /\ (IF pattern[k] = "1" THEN 1 ELSE 0) # idcode[base + k]

\* C10: when the device count and total IR length detected agree with the
\* configured chain, validate_chain() reads 32*N bits, fails with an IDCODE
\* mismatch iff the slice of some chain device differs from that device's
\* pattern at a position that is not X, and when it succeeds the chain is
\* validated and the controller is in RUN_TEST_IDLE.
C10_ValidateChain ==
  ( /\ last.op = "validate_chain"
    /\ Len(ctl.chain) = Len(ctl.sims)
    /\ ChainIrLen(ctl.chain) = HardwareIrLen ) =>
    /\ Len(last.ret) = IdcodeLen * Len(ctl.chain)
    /\ last.err \in {"", "IDCode doesn't match"}
    /\ last.err = "IDCode doesn't match"
         <=> \E i \in 1..Len(ctl.chain) : SliceDiffers(last.ret, i)
    /\ last.err = "" =>
         /\ ctl.validated
         /\ ctl.state = RUN_TEST_IDLE
         /\ \A d \in 1..Len(ctl.sims) : ctl.sims[d].state = RUN_TEST_IDLE

\* validate_chain() has succeeded on the chain A, B configured with a
\* pattern for A that has an X where A's IDCODE has a 1.
C10_Witness ==
  /\ last.op = "validate_chain"
  /\ last.err = ""
  /\ Hardware = <<"A", "B">>
  /\ ctl.chain[1].id = "AX"
  /\ ctl.chain[2].id = "B"
  /\ ctl.validated
  /\ ctl.state = RUN_TEST_IDLE

(***************************************************************************)
(* Properties of tasks sharing cycle() (SpecAsync)                         *)
(***************************************************************************)
Tasks == DOMAIN tasks

AllDone == \A t \in Tasks : tasks[t].pc = "done"

\* max(m_1..m_N) of the counts of the tasks
MaxCount == CHOOSE m \in { tasks[t].count : t \in Tasks } :
              \A t \in Tasks : tasks[t].count <= m

\* C4: when the tasks have no other suspension point than cycle() and
\* task i calls it count_i times, cycle_counter has increased by exactly
\* max(count_1..count_N) when all of them have ended (it starts at 0).
C4_SharedCycles ==
  (AllDone /\ \A t \in Tasks : ~tasks[t].suspends) =>
    ctl.cycle_counter = MaxCount

\* Two tasks calling cycle() 2 times and once have ended after 2 scans,
\* not 3.
C4_Witness ==
  /\ AllDone
  /\ Len(tasks) = 2
  /\ tasks[1].count = 2 /\ ~tasks[1].suspends
  /\ tasks[2].count = 1 /\ ~tasks[2].suspends
  /\ ctl.cycle_counter = 2
  /\ Len(hist) = 2

\* C5: every call of cycle() that has returned returned after exactly
\* one scan was performed between the call and the return, whichever task
\* performed it; tasks may have suspension points of their own.
C5_OneScanPerCall ==
  \A t \in Tasks : tasks[t].i > 0 => tasks[t].span = 1

\* A call of task 2 has returned after a scan that task 1 performed.
C5_Witness ==
  /\ Len(tasks) = 2
  /\ tasks[2].i > 0
  /\ tasks[2].span = 1
  /\ hist[tasks[2].scan].by = 1

\* The place in the shifted stream of cell <<d, i>>: the cells of the
\* devices after d come first.
StreamPos(cell) ==
  LET RECURSIVE After(_)
      After(e) == IF e > Len(ctl.chain) THEN 0 ELSE Len(ctl.chain[e].out) + After(e + 1)
  IN  After(cell[1] + 1) + cell[2]

\* The in_values seen, device 0's cells first, as one bit string.
Flat(seen) ==
  LET RECURSIVE Cat(_)
      Cat(d) == IF d > Len(seen) THEN <<>> ELSE seen[d] \o Cat(d + 1)
  IN  Cat(1)

\* C6: for every call of cycle() that has returned, the value the task
\* set on its cell before the call, unless another task set the cell
\* before the scan, is in the vector shifted by the scan that completed
\* the call; the in_values read on return are the bits that scan
\* captured; tasks released by the same scan have read the same in_values.
C6_ScanCarriesWrites ==
  \A t \in Tasks : tasks[t].i > 0 =>
    /\ tasks[t].scan \in 1..Len(hist)
    /\ t \in hist[tasks[t].scan].intact =>
         hist[tasks[t].scan].tdi[StreamPos(tasks[t].cell)] = tasks[t].sent
    /\ Flat(tasks[t].seen) = hist[tasks[t].scan].tdo
    /\ \A u \in Tasks :
         (tasks[u].i > 0 /\ tasks[u].scan = tasks[t].scan) =>
           tasks[u].seen = tasks[t].seen

\* Task 1 set its cell to 1 before its second call, on the chain A, B;
\* the scan that task 2 performed shifted it, and both read its capture.
C6_Witness ==
  /\ Hardware = <<"A", "B">>
  /\ Len(tasks) = 2
  /\ tasks[1].i = 2 /\ tasks[1].sent = 1
  /\ tasks[2].i > 0
  /\ tasks[2].scan = tasks[1].scan
  /\ 1 \in hist[tasks[1].scan].intact
  /\ hist[tasks[1].scan].tdi[StreamPos(tasks[1].cell)] = 1
  /\ tasks[2].seen = tasks[1].seen

\* C7 as stated: on a validated chain of one or more devices whose cells
\* are looped back position for position, after every cycle() each
\* cell's in_value is that cell's out_value from just before the cycle.
C7_Claim ==
  loopback => \A k \in 1..Len(hist) : hist[k].in = hist[k].out

\* C7 restricted to a chain of one device, where it holds.
C7_OneDevice ==
  (loopback /\ Len(ctl.chain) = 1) =>
    \A k \in 1..Len(hist) : hist[k].in = hist[k].out

(***************************************************************************)
(* Properties of the validated flag (SpecGate)                             *)
(***************************************************************************)
\* The operations that start with "if not self.chain.validated: raise",
\* themselves or through the first call they make.
GuardedOps ==
  {"load_instruction", "read_register", "write_register", "read_write_register",
   "extest", "cycle"}

\* C11: add_device always leaves validated false; validated is true after
\* an operation only if it was true before and the operation was not
\* add_device, or the operation was a validate_chain that succeeded; and a
\* guarded operation called while validated is false raises "Chain not
\* validated", emits no TCK cycle and leaves the recorded state and the TAP
\* as they were.
C11_ValidatedGate ==
  [][ /\ last'.op = "add_device" => ~ctl'.validated
      /\ ctl'.validated =>
           \/ ctl.validated /\ last'.op # "add_device"
           \/ last'.op = "validate_chain" /\ last'.err = ""
      /\ (~ctl.validated /\ last'.op \in GuardedOps) =>
           /\ last'.err = "Chain not validated"
           /\ last'.tck = 0
           /\ ctl'.state = ctl.state
           /\ ctl'.sims = ctl.sims
           /\ ~ctl'.validated ]_vars

\* load_instruction has been refused on a chain that had been validated
\* and put into EXTEST before a device was added to it.
C11_Witness ==
  /\ last.op = "load_instruction"
  /\ last.err = "Chain not validated"
  /\ ctl.in_extest
  /\ ~ctl.validated
  /\ Len(ctl.chain) > Len(ctl.sims)

(***************************************************************************)
(* Properties of ir_scan and dr_scan (SpecScan)                            *)
(***************************************************************************)
\* The chain's instruction or data shift registers as the one shift
\* register they form: the TDO-most device's bits leave first.
ChainRegister(sims, op) ==
  LET RECURSIVE From(_)
      From(d) ==
        IF d = 0 THEN <<>>
        ELSE (IF op = "ir_scan" THEN sims[d].shift_ir ELSE sims[d].shift_dr)
               \o From(d - 1)
  IN  From(Len(sims))

ShiftState(op) == IF op = "ir_scan" THEN SHIFT_IR ELSE SHIFT_DR
Exit1State(op) == IF op = "ir_scan" THEN EXIT1_IR ELSE EXIT1_DR

\* C12 as stated: a scan returns as many bits as it was given and leaves
\* the controller in end_state, in RUN_TEST_IDLE when none was given.
C12_Claim ==
  (last.op \in {"ir_scan", "dr_scan"} /\ last.arg[1] # <<>>) =>
    /\ last.err = ""
    /\ Len(last.ret) = Len(last.arg[1])
    /\ ctl.state = IF last.arg[2] = None THEN RUN_TEST_IDLE ELSE last.arg[2]

\* C12, what the code does: the scan routes to SHIFT, clocks exactly
\* len(bits) cycles there, returns the bits that left the chain's shift
\* register (its contents on arrival in SHIFT, then the bits shifted in),
\* and leaves the controller and the TAP in end_state, or in EXIT1 when
\* end_state is not given.
C12_ScanContract ==
  [][ (last'.op \in {"ir_scan", "dr_scan"} /\ nops' = nops + 1) =>
        LET op == last'.op
            bits == last'.arg[1]
            end == IF last'.arg[2] = None THEN Exit1State(op) ELSE last'.arg[2]
            at == Goto(ctl, ShiftState(op), 0)
        IN  /\ last'.err = ""
            /\ last'.ret = Slice(ChainRegister(at.sims, op) \o bits, 0, Len(bits))
            /\ last'.tck = Dist(ctl.state, ShiftState(op)) + Len(bits)
                             + Dist(Exit1State(op), end)
            /\ ctl'.state = end
            /\ \A d \in 1..Len(ctl'.sims) : ctl'.sims[d].state = end ]_vars

\* dr_scan of five bits without end_state has returned, on a chain whose
\* data registers hold fewer bits.
C12_Witness ==
  /\ last.op = "dr_scan"
  /\ last.arg = << <<1, 0, 1, 1, 0>>, None >>
  /\ last.err = ""
  /\ Len(last.ret) = 5
  /\ ctl.state = EXIT1_DR

(***************************************************************************)
(* Properties of extest (SpecExtest)                                       *)
(***************************************************************************)
\* C13: extest() on a validated chain completes exactly three register
\* operations, in this order: load_instruction(SAMPLE), one
\* read_write_register of the vector generated from the cells' out_values
\* as they were at the call, load_instruction(EXTEST); in_extest is false
\* during all three, whatever it was before, and true on return; the
\* cells' in_values are the captured bits as update_br distributes them,
\* and the out_values are unchanged.
C13_ExtestOrder ==
  [][ (last'.op = "extest" /\ nops' = nops + 1) =>
        /\ last'.err = ""
        /\ Len(last'.calls) = 3
        /\ last'.calls[1].op = "load_instruction" /\ last'.calls[1].arg = "SAMPLE"
        /\ last'.calls[2].op = "read_write_register"
        /\ last'.calls[2].arg = ChainGenerateBr(ctl.chain)
        /\ last'.calls[3].op = "load_instruction" /\ last'.calls[3].arg = "EXTEST"
        /\ \A k \in 1..3 : ~last'.calls[k].in_extest
        /\ ctl'.in_extest
        /\ ctl'.chain = ChainUpdateBr(ctl.chain, last'.calls[2].ret).chain
        /\ OutValues(ctl'.chain) = OutValues(ctl.chain) ]_vars

\* extest() has returned on a chain of two devices on which the host had
\* set the pin of device 0, whose safe value is 0, to 1.
C13_Witness ==
  /\ last.op = "extest"
  /\ last.err = ""
  /\ Len(ctl.chain) = 2
  /\ ctl.chain[1].out = <<1>>
  /\ last.calls[2].arg = <<1, 0, 1>>
  /\ ctl.in_extest

(***************************************************************************)
(* Properties of chain failures (SpecFault)                                *)
(***************************************************************************)
\* C14: after detect_chain, whether it returned or raised, the recorded
\* state is TEST_LOGIC_RESET and so is the TAP of every device.
C14_DetectEndsInReset ==
  last.op = "detect_chain" =>
    /\ ctl.state = TEST_LOGIC_RESET
    /\ \A d \in 1..Len(ctl.sims) : ctl.sims[d].state = TEST_LOGIC_RESET
    /\ last.err \in {"", "TDO stuck at 0", "TDO stuck at 1"}

\* detect_chain, called in PAUSE_DR, has raised on a chain whose TDO is
\* stuck at 1.
C14_Witness ==
  /\ last.op = "detect_chain"
  /\ last.from = PAUSE_DR
  /\ last.err = "TDO stuck at 1"
  /\ ctl.sims[Len(ctl.sims)].device = "S1"

\* C15 as stated: after a validate_chain that raised, the recorded state
\* is TEST_LOGIC_RESET.
C15_Claim ==
  (last.op = "validate_chain" /\ last.err # "") => ctl.state = TEST_LOGIC_RESET

\* C15, what the code does: after a validate_chain that raised, the
\* recorded state (and every TAP) is TEST_LOGIC_RESET when detection, the
\* device count or the total IR length failed, and RUN_TEST_IDLE when the
\* IDCODE comparison failed.
C15_ValidateFailureState ==
  (last.op = "validate_chain" /\ last.err # "") =>
    /\ last.err \in {"TDO stuck at 0", "TDO stuck at 1",
                     "Incorrect nr of devices in chain", "Incorrect total ir length",
                     "IDCode doesn't match"}
    /\ ctl.state = IF last.err = "IDCode doesn't match" THEN RUN_TEST_IDLE
                   ELSE TEST_LOGIC_RESET
    /\ \A d \in 1..Len(ctl.sims) : ctl.sims[d].state = ctl.state

\* validate_chain has raised on an IDCODE mismatch of the second device.
C15_Witness ==
  /\ last.op = "validate_chain"
  /\ last.err = "IDCode doesn't match"
  /\ Len(ctl.chain) = 2
  /\ ctl.chain[2].id = "A2"
  /\ ctl.state = RUN_TEST_IDLE

(***************************************************************************)
(* Properties of wait (SpecWait)                                           *)
(***************************************************************************)
\* C16: wait(cycles) called in RUN_TEST_IDLE, PAUSE_DR or PAUSE_IR clocks
\* exactly cycles TCK cycles, all with TMS=0; called in TEST_LOGIC_RESET
\* exactly cycles cycles, all with TMS=1; called in any other state it
\* raises and clocks nothing.  In every case the recorded state and the
\* TAP of every device are afterwards the state it was called in.
C16_WaitHolds ==
  last.op = "wait" =>
    /\ ctl.state = last.from
    /\ \A d \in 1..Len(ctl.sims) : ctl.sims[d].state = last.from
    /\ IF last.from \in {RUN_TEST_IDLE, PAUSE_DR, PAUSE_IR}
       THEN last.err = "" /\ last.tck = last.arg /\ last.tms1 = 0
       ELSE IF last.from = TEST_LOGIC_RESET
       THEN last.err = "" /\ last.tck = last.arg /\ last.tms1 = last.arg
       ELSE last.err # "" /\ last.tck = 0

\* wait(2) has returned in TEST_LOGIC_RESET after two cycles with TMS=1.
C16_Witness ==
  /\ last.op = "wait"
  /\ last.from = TEST_LOGIC_RESET
  /\ last.arg = 2
  /\ last.tck = 2
  /\ last.tms1 = 2

(***************************************************************************)
(* Properties of pins (SpecPin)                                            *)
(***************************************************************************)
\* A pin that has an output cell but neither a control cell nor an input
\* cell.
PermanentOutput(pin) ==
  pin.output_cell # None /\ pin.control_cell = None /\ pin.input_cell = None

\* C17 as stated: on a permanently-output pin output_enable(false) raises,
\* and output_enable(true) succeeds and changes no cell.
C17_Claim ==
  [][ (last'.op = "output_enable" /\ nops' = nops + 1
       /\ PermanentOutput(PinOf(CellsP, last'.arg[2]))) =>
        /\ ctl'.chain = ctl.chain
        /\ last'.arg[3] <=> last'.err = "" ]_vars

\* C17, what the code does: on a permanently-output pin output_enable
\* succeeds, for true and for false alike, and changes no cell.
C17_NeverRefused ==
  [][ (last'.op = "output_enable" /\ nops' = nops + 1
       /\ PermanentOutput(PinOf(CellsP, last'.arg[2]))) =>
        /\ ctl'.chain = ctl.chain
        /\ last'.err = "" ]_vars

\* output_enable(false) has returned on the permanently-output pin OUT.
C17_Witness ==
  /\ last.op = "output_enable"
  /\ last.arg[2] = "OUT"
  /\ PermanentOutput(PinOf(CellsP, "OUT"))
  /\ last.arg[3] = FALSE
  /\ last.err = ""


(***************************************************************************)
(* The host loads a STAPL file, builds an interpreter for it and calls     *)
(* run() on it, several times over.                                        *)
(***************************************************************************)
MaxRuns == 2

\* ACTION lines whose procedures are in every category and in an order
\* that is not the order of the file.
FileSelect ==
  StaplFile(
    << Action("ALL", << <<"A1", "required">>, <<"A2", "recommended">>,
                        <<"A3", "optional">>, <<"A4", "required">> >>),
       Action("REV", << <<"A4", "optional">>, <<"A3", "required">>,
                        <<"A1", "recommended">> >>),
       Action("GONE", << <<"A1", "recommended">>, <<"A9", "optional">>,
                         <<"A2", "required">> >>) >>,
    << ProcedureInstruction("A1", <<>>), PushInstruction(Lit(1)), EndProcedureInstruction,
       ProcedureInstruction("A2", <<>>), PushInstruction(Lit(2)), EndProcedureInstruction,
       ProcedureInstruction("A3", <<>>), PushInstruction(Lit(3)), EndProcedureInstruction,
       ProcedureInstruction("A4", <<>>), PushInstruction(Lit(4)), EndProcedureInstruction >>)

\* ACTION X = P; PROCEDURE P; EXIT 7; ENDPROC;
FileExit7 ==
  StaplFile(<< Action("X", << <<"P", "required">> >>) >>,
            << ProcedureInstruction("P", <<>>), ExitInstruction(Lit(7)),
               EndProcedureInstruction >>)

\* EXIT code in the middle of the first procedure of an action (X), in a
\* procedure CALLed by it (Y), and with the code held by a variable (V)
FileExit(code) ==
  StaplFile(
    << Action("X", << <<"P", "required">>, <<"Q", "required">> >>),
       Action("Y", << <<"R", "required">>, <<"Q", "recommended">> >>),
       Action("V", << <<"Q", "optional">>, <<"T", "required">>, <<"Q", "required">> >>),
       Action("Z", << <<"Q", "required">> >>) >>,
    << ProcedureInstruction("P", <<>>), PushInstruction(Lit(1)), ExitInstruction(Lit(code)),
       PushInstruction(Lit(2)), EndProcedureInstruction,
       ProcedureInstruction("Q", <<>>), PushInstruction(Lit(3)), EndProcedureInstruction,
       ProcedureInstruction("R", <<>>), IntegerInstruction("a", Lit(5)), CallInstruction("S"),
       PushInstruction(Lit(4)), EndProcedureInstruction,
       ProcedureInstruction("S", <<>>), ExitInstruction(Lit(code)), EndProcedureInstruction,
       ProcedureInstruction("T", <<>>), IntegerInstruction("x", Lit(code)),
       ExitInstruction(Var("x")), EndProcedureInstruction >>)

\* Nested CALLs from inside a FOR loop, by a caller that has variables and
\* a value on its stack; a data block used by the caller and by a callee.
FileCall ==
  StaplFile(
    << Action("GO", << <<"P", "required">>, <<"R", "optional">> >>),
       Action("BAD", << <<"U", "required">> >>) >>,
    << DataInstruction("D"), IntegerInstruction("d", Lit(2)), EndDataInstruction,
       ProcedureInstruction("P", <<"D">>), IntegerInstruction("a", Lit(5)),
       PushInstruction(Var("d")), ForInstruction("i", Lit(0), Lit(1), Lit(1)),
       CallInstruction("Q"), NextInstruction("i"), EndProcedureInstruction,
       ProcedureInstruction("Q", <<>>), IntegerInstruction("b", Lit(3)),
       PushInstruction(Lit(9)), CallInstruction("R"), PopInstruction("b"),
       EndProcedureInstruction,
       ProcedureInstruction("R", <<"D">>), PushInstruction(Lit(6)), PopInstruction("d"),
       EndProcedureInstruction,
       ProcedureInstruction("U", <<>>), PushInstruction(Lit(8)), CallInstruction("W"),
       EndProcedureInstruction >>)

StaplFiles == {FileSelect, FileExit7, FileExit(0), FileExit(7), FileCall}

\* The actions the host asks for: those of the file and one it has not
RunActions(file) == ActionNames(file) \cup {"NONE"}

InitStapl ==
  /\ ctl = Quiet(Setup(<<"A">>, <<"A">>, 0, FALSE))
  /\ loopback = FALSE
  /\ last = NoOp
  /\ nops = 0
  /\ verbose = TRUE
  /\ NoTasks
  /\ \E file \in StaplFiles : interp = StaplInterpreter(ctl, file)

\* The host has called run(): last keeps how.
Called_run(op, arg, si) ==
  /\ interp' = si
  /\ last' = [NoOp EXCEPT !.op = op, !.arg = arg]
  /\ nops' = nops + 1
  /\ UNCHANGED <<ctl, loopback, verbose, tasks, ready, hist>>

\* interpreter.run(action, recommended, optional)
DoRun ==
  /\ nops < MaxRuns
  /\ ~interp.running
  /\ \E action \in RunActions(interp.stapl) : \E recommended, optional \in BOOLEAN :
       Called_run("run(action, recommended, optional)", <<action, recommended, optional>>,
                  InterpreterRun(interp, action, recommended, optional))

\* interpreter.run(action)
DoRunDefault ==
  /\ nops < MaxRuns
  /\ ~interp.running
  /\ \E action \in RunActions(interp.stapl) :
       Called_run("run(action)", <<action>>, InterpreterRunDefault(interp, action))

\* run() executes its next statement.
DoExecute ==
  /\ interp.running
  /\ interp' = Step(interp)
  /\ ctl' = interp'.ctl
  /\ UNCHANGED <<loopback, last, nops, verbose, tasks, ready, hist>>

NextStapl ==
  \/ DoRun
  \/ DoRunDefault
  \/ DoExecute

SpecStapl == InitStapl /\ [][NextStapl]_vars


(***************************************************************************)
(* C18 .. C20: the STAPL interpreter's run(), EXIT, CALL and ENDPROC       *)
(***************************************************************************)
\* The host has called run() at least once.
RunCalled == last.op \in {"run(action)", "run(action, recommended, optional)"}
\* The arguments of the host's last call of run(), a call without the
\* optional arguments read with the defaults the specification states.
AskedAction == last.arg[1]
AskedRecommended == IF last.op = "run(action)" THEN TRUE ELSE last.arg[2]
AskedOptional == IF last.op = "run(action)" THEN FALSE ELSE last.arg[3]
CategorySelected(opt) ==
  \/ opt = "required"
  \/ opt = "recommended" /\ AskedRecommended
  \/ opt = "optional" /\ AskedOptional
\* The procedures of the action asked for whose category is selected, in
\* the order of the ACTION line
RECURSIVE SelectedOf(_)
SelectedOf(procedures) ==
  IF procedures = <<>> THEN <<>>
  ELSE (IF CategorySelected(Head(procedures)[2]) THEN <<Head(procedures)[1]>> ELSE <<>>)
         \o SelectedOf(Tail(procedures))
SelectedProcedures ==
  IF AskedAction \in ActionNames(interp.stapl)
  THEN SelectedOf(ActionOf(interp.stapl, AskedAction).procedures)
  ELSE <<>>
\* The procedure or data block the statement at index pc belongs to
BlockAt(statements, pc) ==
  statements[CHOOSE i \in 1..(pc + 1) :
               /\ statements[i].op \in {"PROCEDURE", "DATA"}
               /\ \A j \in (i + 1)..(pc + 1) : statements[j].op \notin {"PROCEDURE", "DATA"}]
\* The procedures CALLed by the statements of the procedures in names
Callees(statements, names) ==
  { statements[i].procedure :
      i \in { j \in 1..Len(statements) :
                /\ statements[j].op = "CALL"
                /\ BlockAt(statements, j - 1).name \in names } }
RECURSIVE CallClosure(_, _)
CallClosure(statements, names) ==
  IF Callees(statements, names) \subseteq names THEN names
  ELSE CallClosure(statements, names \cup Callees(statements, names))
IsPrefix(p, q) == Len(p) <= Len(q) /\ p = SubSeq(q, 1, Len(p))
\* run() has returned after the ENDPROC of the last procedure it ran
RanToEnd ==
  /\ ~interp.running
  /\ interp.result = "done"
  /\ interp.log # <<>> =>
       interp.stapl.statements[interp.log[Len(interp.log)] + 1].op # "EXIT"
\* What C18 says of the run() in progress or last ended
SelectionHolds ==
  /\ IsPrefix(interp.started, SelectedProcedures)
  /\ RanToEnd => interp.started = SelectedProcedures
  /\ \A k \in 1..Len(interp.log) :
       LET block == BlockAt(interp.stapl.statements, interp.log[k])
       IN  \/ block.op = "DATA"
           \/ block.name \in CallClosure(interp.stapl.statements,
                                         { SelectedProcedures[i] :
                                             i \in 1..Len(SelectedProcedures) })

\* C18: run(action, recommended, optional) starts, in the order of the
\* ACTION line, exactly the procedures whose category is required, or
\* recommended with recommended true, or optional with optional true (a
\* call run(action) counting as recommended true, optional false), and no
\* statement of a procedure that is neither selected nor CALLed from a
\* selected one is executed.
C18_Claim == RunCalled => SelectionHolds

\* C18, what the code guarantees: the same, for every run() that was
\* called while the interpreter's call stack was empty.
C18_SelectionFromEmptyStack == (RunCalled /\ interp.depth = 0) => SelectionHolds

\* run("ALL") has run A1, A2 and A4 of FileSelect and none of A3's statements.
C18_Witness ==
  /\ last.op = "run(action)"
  /\ AskedAction = "ALL"
  /\ interp.stapl = FileSelect
  /\ RanToEnd
  /\ interp.depth = 0
  /\ interp.started = <<"A1", "A2", "A4">>
  /\ interp.log = <<0, 1, 2, 3, 4, 5, 9, 10, 11>>


\* The statement run() executed as the k-th of this run
Executed(k) == interp.stapl.statements[interp.log[k] + 1]
\* The code of the EXIT statement executed last: its literal, or the value
\* of the variable it names in the scope of the frame that executed it
ExitCodeOf(instruction) ==
  IF instruction.exit_code.e = "literal" THEN instruction.exit_code.v
  ELSE interp.state.scope[instruction.exit_code.name].v.v
\* run() has ended at the EXIT it executed as its k-th statement
EndedAtExit(k) ==
  /\ k = Len(interp.log)
  /\ ~interp.running
  /\ IF ExitCodeOf(Executed(k)) = 0
     THEN interp.result = "done"
     ELSE /\ interp.result = "raised"
          /\ interp.error = "StaplExitCode"
          /\ interp.code = ExitCodeOf(Executed(k))

\* C19: once a procedure run by run() has executed EXIT c, run() has
\* ended and that EXIT is the last statement it executed (no statement
\* after it, no remaining procedure of the action); run() has returned
\* normally if c = 0 and has raised the exit code c otherwise.
C19_ExitEndsRun ==
  RunCalled =>
    \A k \in 1..Len(interp.log) :
      (Executed(k).op = "EXIT" /\ BlockAt(interp.stapl.statements, interp.log[k]).op = "PROCEDURE")
        => EndedAtExit(k)

\* run("X") on FileExit(0) has returned at the EXIT 0 of P: neither the
\* rest of P nor the selected procedure Q has run.
C19_Witness ==
  /\ RunCalled
  /\ AskedAction = "X"
  /\ interp.stapl = FileExit(0)
  /\ SelectedProcedures = <<"P", "Q">>
  /\ interp.started = <<"P">>
  /\ interp.log = <<0, 1, 2>>
  /\ EndedAtExit(3)


\* The frame a CALL of procedure starts: at the procedure's entry, with
\* no variable, no loop and no value on its stack
FreshFrame(procedure) ==
  [pc |-> interp.stapl.procedures[procedure], procedure |-> procedure,
   loop_stack |-> <<>>, scope |-> [n \in {} |-> 0], stack |-> <<>>]
\* run() ends the procedure it is running, which leaves no current frame:
\* it returns (or fails to find the next procedure), or starts the next
\* procedure of the action in a frame of its own
ProcedureRunEnds ==
  \/ ~interp'.running /\ interp'.state = NoState
  \/ /\ interp'.running
     /\ Len(interp'.started) = Len(interp.started) + 1
     /\ interp'.state = FreshFrame(interp'.started[Len(interp'.started)])
\* What the statement that run() executes in this step does to the frames.
\* A frame's scope is the names it binds with the variables they are bound
\* to: a variable the frame created with its value, a variable of a data
\* block as that data block's variable.
FrameStep ==
  LET instruction == interp.stapl.statements[interp.state.pc + 1]
      depth == Len(interp.call_stack)
  IN  CASE instruction.op = "CALL" /\ instruction.procedure \in DOMAIN interp.stapl.procedures ->
             /\ interp'.running
             /\ interp'.state = FreshFrame(instruction.procedure)
             /\ interp'.call_stack =
                  Append(interp.call_stack, [interp.state EXCEPT !.pc = interp.state.pc + 1])
        [] instruction.op = "ENDPROC" /\ depth > 0 ->
             /\ interp'.running
             /\ interp'.state = interp.call_stack[depth]
             /\ interp'.call_stack = SubSeq(interp.call_stack, 1, depth - 1)
        [] instruction.op = "ENDPROC" /\ depth = 0 ->
             /\ ProcedureRunEnds
             /\ interp'.call_stack = <<>>
        [] OTHER -> IsPrefix(interp.call_stack, interp'.call_stack)

\* C20: CALL p pushes the caller's frame, resuming after the CALL, and
\* starts p at its entry with an empty scope, loop stack and data stack;
\* no statement changes a frame that is on the call stack; ENDPROC with
\* a non-empty call stack makes the frame on top of it the current one,
\* which leaves the caller with the scope, loop stack and data stack it
\* had at the CALL and the call stack as deep as it was; ENDPROC with an
\* empty call stack ends the procedure run.
C20_CallAndReturn ==
  [][(interp.running /\ interp' # interp /\ interp.state.pc < Len(interp.stapl.statements))
       => FrameStep]_vars

\* P of FileCall, called from inside its FOR loop, has got its frame back
\* from Q (which itself called R) as it was at the CALL: variables a, d
\* and i, the loop of i, the value it pushed, and an empty call stack.
C20_Witness ==
  /\ interp.stapl = FileCall
  /\ interp.running
  /\ interp.log = <<0, 1, 2, 3, 4, 5, 6, 7, 10, 11, 12, 13, 16, 17, 18, 19, 14, 15>>
  /\ interp.state =
       [pc |-> 8, procedure |-> "P",
        loop_stack |-> <<[var |-> "i", step |-> AnyVal(1), end |-> AnyVal(1), first_pc |-> 7]>>,
        scope |-> [n \in {"a", "d", "i"} |->
                     CASE n = "a" -> Variable(IntVal(5))
                       [] n = "d" -> Shared("D")
                       [] n = "i" -> Variable(AnyVal(0))],
        stack |-> <<IntVal(2)>>]
  /\ interp.call_stack = <<>>

(***************************************************************************)
(* C21: FOR and NEXT                                                       *)
(***************************************************************************)
MaxLoop == 2

\* ACTION UP = UP; ACTION DOWN = DOWN;
\* PROCEDURE UP; FOR i = a TO b; PUSH i; NEXT i; EXIT 0; ENDPROC;
\* PROCEDURE DOWN; FOR i = b TO a STEP -1; PUSH i; NEXT i; EXIT 0; ENDPROC;
FileLoop(a, b) ==
  StaplFile(
    << Action("UP", << <<"UP", "required">> >>),
       Action("DOWN", << <<"DOWN", "required">> >>) >>,
    << ProcedureInstruction("UP", <<>>), ForInstruction("i", Lit(a), Lit(b), DefaultStep),
       PushInstruction(Var("i")), NextInstruction("i"), ExitInstruction(Lit(0)),
       EndProcedureInstruction,
       ProcedureInstruction("DOWN", <<>>), ForInstruction("i", Lit(b), Lit(a), Neg(1)),
       PushInstruction(Var("i")), NextInstruction("i"), ExitInstruction(Lit(0)),
       EndProcedureInstruction >>)

InitLoop ==
  /\ ctl = Quiet(Setup(<<"A">>, <<"A">>, 0, FALSE))
  /\ loopback = FALSE
  /\ last = NoOp
  /\ nops = 0
  /\ verbose = TRUE
  /\ NoTasks
  /\ \E a, b \in 0..MaxLoop : interp = StaplInterpreter(ctl, FileLoop(a, b))

NextLoop ==
  \/ DoRunDefault
  \/ DoExecute

SpecLoop == InitLoop /\ [][NextLoop]_vars

\* The FOR statement of the procedure that run() started, and the values
\* its start, end and step evaluate to
LoopFor == interp.stapl.statements[interp.entry + 2]
LoopStart == Evaluate(interp, LoopFor.start).v
LoopEnd == Evaluate(interp, LoopFor.end).v
LoopStep == Evaluate(interp, LoopFor.step).v
\* start, start + step, ..., end
LoopValues ==
  [k \in 1..((IF LoopEnd >= LoopStart THEN LoopEnd - LoopStart ELSE LoopStart - LoopEnd) + 1)
     |-> LoopStart + (k - 1) * LoopStep]
\* The values the body has pushed, one for each time it was executed
Pushed == [k \in 1..Len(interp.state.stack) |-> interp.state.stack[k].v]
\* The indices of the statements of a procedure at entry whose body was
\* executed n times and that has gone on to the statement after NEXT
RECURSIVE Rounds(_, _)
Rounds(entry, n) ==
  IF n = 0 THEN <<>> ELSE <<entry + 2, entry + 3>> \o Rounds(entry, n - 1)
LoopLog(entry, n) == <<entry, entry + 1>> \o Rounds(entry, n) \o <<entry + 4>>
\* run() has started a procedure whose loop counts up from a to b by the
\* default step, or down from b to a by -1, for a <= b
LoopCase ==
  /\ RunCalled
  /\ interp.started # <<>>
  /\ \/ LoopStep = 1 /\ LoopStart <= LoopEnd
     \/ LoopStep = 0 - 1 /\ LoopStart >= LoopEnd

MaxBits == 2

\* The bit vectors of a length
BitVectors(n) == [1..n -> {0, 1}]

\* BOOLEAN name[n]; name[0] = bits[1]; ...; name[n - 1] = bits[n];
Filled(name, bits) ==
  <<BooleanInstruction(name, Len(bits), NoExpr)>>
    \o [k \in 1..Len(bits) |->
          AssignmentInstruction(ElementRef(name, Lit(k - 1)), Lit(bits[k]))]

\* PROCEDURE DR; (d, e and m are filled) BOOLEAN c[n]; BOOLEAN r;
\* DRSCAN n, d, CAPTURE c, COMPARE e, m, r; EXIT 0; ENDPROC;
\* and PROCEDURE IR, the same with IRSCAN
ScanProcedure(name, scan, d, e, m) ==
  <<ProcedureInstruction(name, <<>>)>>
    \o Filled("d", d) \o Filled("e", e) \o Filled("m", m)
    \o << BooleanInstruction("c", Len(d), NoExpr), BooleanInstruction("r", -1, NoExpr),
          scan, ExitInstruction(Lit(0)), EndProcedureInstruction >>
FileScan(d, e, m) ==
  StaplFile(
    << Action("DR", << <<"DR", "required">> >>), Action("IR", << <<"IR", "required">> >>) >>,
    ScanProcedure("DR", DrScanInstruction(Lit(Len(d)), Var("d"), VariableRef("c"),
                                          Var("e"), Var("m"), VariableRef("r")), d, e, m)
      \o ScanProcedure("IR", IrScanInstruction(Lit(Len(d)), Var("d"), VariableRef("c"),
                                               Var("e"), Var("m"), VariableRef("r")), d, e, m))

\* The chains the controller of the interpreter drives: TDI wired to TDO,
\* and one device
ScanChains == { <<>>, <<"A">> }

InitStaplScan ==
  /\ \E hw \in ScanChains : ctl = NewController(hw)
  /\ loopback = FALSE
  /\ last = NoOp
  /\ nops = 0
  /\ verbose = TRUE
  /\ NoTasks
  /\ \E n \in 1..MaxBits : \E d, e, m \in BitVectors(n) :
       interp = StaplInterpreter(ctl, FileScan(d, e, m))

\* The host runs one action of the file.
DoRunOnce ==
  /\ nops = 0
  /\ ~interp.running
  /\ \E action \in ActionNames(interp.stapl) :
       Called_run("run(action)", <<action>>, InterpreterRunDefault(interp, action))

NextStaplScan ==
  \/ DoRunOnce
  \/ DoExecute

SpecStaplScan == InitStaplScan /\ [][NextStaplScan]_vars

\* run() has returned from the procedure with the scan
ScanRan == RunCalled /\ ~interp.running /\ interp.started # <<>>
\* The bits the controller returned to the scan of the run
ScanOut == interp.scans[1].tdo

\* C22: the capture variable of a scan holds exactly the bits the scan
\* returned, and the result variable of COMPARE is Bool(1) if the returned
\* bits and the expected bits agree where the mask is 1 and Bool(0) if
\* not, for all returned, expected and mask vectors of the scan's length.
C22_CaptureCompare ==
  ScanRan =>
    /\ interp.result = "done"
    /\ Len(interp.scans) = 1
    /\ interp.scans[1].op = (IF AskedAction = "DR" THEN "DRSCAN" ELSE "IRSCAN")
    /\ Len(ScanOut) = Len(ValueOf(interp, "d").v)
    /\ ValueOf(interp, "c") = BoolArray(ScanOut)
    /\ ValueOf(interp, "r") =
         (IF \A k \in 1..Len(ScanOut) :
               ValueOf(interp, "m").v[k] = 1 => ScanOut[k] = ValueOf(interp, "e").v[k]
          THEN BoolVal(1) ELSE BoolVal(0))

C22_Witness ==
  /\ ScanRan
  /\ interp.result = "done"
  /\ AskedAction = "DR"
  /\ ScanOut = <<1, 0>>
  /\ ValueOf(interp, "c") = BoolArray(<<1, 0>>)
  /\ ValueOf(interp, "e") = BoolArray(<<1, 1>>)
  /\ ValueOf(interp, "m") = BoolArray(<<1, 0>>)
  /\ ValueOf(interp, "r") = BoolVal(1)

(***************************************************************************)
(* C23: DRSTOP and IRSTOP                                                  *)
(***************************************************************************)
\* ACTION DI = DI; ACTION ID = ID;
\* PROCEDURE DI; DRSTOP dr; IRSTOP ir; ENDPROC;
\* PROCEDURE ID; IRSTOP ir; DRSTOP dr; ENDPROC;
FileStop(dr, ir) ==
  StaplFile(
    << Action("DI", << <<"DI", "required">> >>), Action("ID", << <<"ID", "required">> >>) >>,
    << ProcedureInstruction("DI", <<>>), DrStopInstruction(dr), IrStopInstruction(ir),
       EndProcedureInstruction,
       ProcedureInstruction("ID", <<>>), IrStopInstruction(ir), DrStopInstruction(dr),
       EndProcedureInstruction >>)

InitStop ==
  /\ ctl = NewController(<<>>)
  /\ loopback = FALSE
  /\ last = NoOp
  /\ nops = 0
  /\ verbose = TRUE
  /\ NoTasks
  /\ \E dr, ir \in State : interp = StaplInterpreter(ctl, FileStop(dr, ir))

SpecStop == InitStop /\ [][NextLoop]_vars

\* The states DRSTOP and IRSTOP may name
StopStates == {TEST_LOGIC_RESET, RUN_TEST_IDLE, PAUSE_IR, PAUSE_DR}
StopsLegal == interp.dr_stop \in StopStates /\ interp.ir_stop \in StopStates
\* The statement that the step executes, when it executes one
Executing == interp.stapl.statements[interp.state.pc + 1]
\* What a step does to the stop states: a call of run() sets both to
\* RUN_TEST_IDLE; the execution of DRSTOP or IRSTOP with one of the four
\* states replaces the one it names and leaves the other, with any other
\* state run() ends with an invalid-state error and both are as before;
\* every other statement leaves both.
StopStep ==
  /\ (~interp.running /\ nops' # nops) =>
       interp'.dr_stop = RUN_TEST_IDLE /\ interp'.ir_stop = RUN_TEST_IDLE
  /\ (interp.running /\ Executing.op \in {"DRSTOP", "IRSTOP"}
        /\ Executing.state \in StopStates) =>
       /\ interp'.error = ""
       /\ interp'.dr_stop = (IF Executing.op = "DRSTOP" THEN Executing.state ELSE interp.dr_stop)
       /\ interp'.ir_stop = (IF Executing.op = "IRSTOP" THEN Executing.state ELSE interp.ir_stop)
  /\ (interp.running /\ Executing.op \in {"DRSTOP", "IRSTOP"}
        /\ Executing.state \notin StopStates) =>
       /\ ~interp'.running
       /\ interp'.result = "raised"
       /\ interp'.error = "InvalidState"
       /\ interp'.dr_stop = interp.dr_stop
       /\ interp'.ir_stop = interp.ir_stop
  /\ (interp.running /\ Executing.op \notin {"DRSTOP", "IRSTOP"}) =>
       /\ interp'.dr_stop = interp.dr_stop
       /\ interp'.ir_stop = interp.ir_stop

\* C23: at every point of every run dr_stop and ir_stop are each one of
\* TEST_LOGIC_RESET, RUN_TEST_IDLE, PAUSE_IR and PAUSE_DR: run() sets both
\* to RUN_TEST_IDLE, DRSTOP or IRSTOP with one of the four replaces the
\* stop state it names, and with any other state it raises the
\* invalid-state error and leaves both as they were.
C23_StopStates == [](StopsLegal) /\ [][StopStep]_vars

\* A run has replaced both stop states and then ended at a DRSTOP that
\* names a state that is not allowed, with the IRSTOP before it in effect.
C23_Witness ==
  /\ RunCalled
  /\ ~interp.running
  /\ interp.error = "InvalidState"
  /\ AskedAction = "ID"
  /\ interp.ir_stop = PAUSE_IR
  /\ interp.dr_stop = RUN_TEST_IDLE
  /\ interp.log = <<4, 5, 6>>

(***************************************************************************)
(* C24: a pin wired to another pin, read back by the task that drives it   *)
(***************************************************************************)
\* The controller after detect_chain, add_device, validate_chain and
\* extest of test_async.main, over devices whose pins are at the level on
\* when the boundary register is first scanned.
WiredSetup(hw, on) ==
  LET RECURSIVE Cells(_)
      Cells(i) == IF i > Len(hw) THEN 0 ELSE BrLen(hw[i]) + Cells(i + 1)
      Powered == [NewController(hw) EXCEPT !.pins = Repeat(on, Cells(1))]
  IN  Extest(ValidateChain(AddDevices(Powered, hw)).c, FALSE).c

InitWired ==
  /\ \E hw \in HwConfigs : \E on \in {0, 1} :
       /\ ctl = Quiet(WiredSetup(hw, on))
       /\ loopback = FALSE
       /\ \E n \in 1..MaxTasks :
            \E count \in [1..n -> 0..MaxCycles] : \E suspends \in [1..n -> BOOLEAN] :
              /\ tasks = [t \in 1..n |->
                            NewTask(count[t], suspends[t], TaskCell(ctl.chain, t))]
              /\ ready = [t \in 1..n |-> t]
  /\ hist = <<>>
  /\ last = NoOp
  /\ nops = 0
  /\ interp = NoInterpreter
  /\ verbose = FALSE

SpecWired == InitWired /\ [][NextAsync]_vars

\* Task t drives pin A of a device (its first cell) that is wired to the
\* device's pin B (its second cell), no other task writes the cell of A,
\* and at least two of t's calls of cycle() have returned.
DrivesWired(t) ==
  /\ tasks[t].cell[2] = 1
  /\ Len(ctl.chain[tasks[t].cell[1]].out) >= 2
  /\ \A u \in DOMAIN tasks : u # t => tasks[u].cell # tasks[t].cell
  /\ tasks[t].i >= 2
\* What t read from B when its last call of cycle() returned
ReadFromB(t) == tasks[t].seen[tasks[t].cell[1]][2]

\* C24: the value a task reads from B right after its k-th cycle() has
\* returned is the value it set on A before its (k-1)-th cycle(), for
\* every k >= 2.
C24_Claim ==
  \A t \in DOMAIN tasks : DrivesWired(t) => ReadFromB(t) = tasks[t].prior

\* The same on a chain of one device
C24_OneDevice ==
  \A t \in DOMAIN tasks :
    (DrivesWired(t) /\ Len(ctl.chain) = 1) => ReadFromB(t) = tasks[t].prior

\* A task on a one-device chain has read 0 from B after its second cycle():
\* it had set A to 0 before its first cycle() and to 1 before the second,
\* while another task calls cycle() too.
C24_Witness ==
  /\ Len(ctl.chain) = 1
  /\ Len(tasks) = 2
  /\ tasks[2].i >= 1
  /\ DrivesWired(1)
  /\ tasks[1].i = 2
  /\ tasks[1].prior = 0
  /\ tasks[1].sent = 1
  /\ ReadFromB(1) = 0

(***************************************************************************)
(* C25: assignment to a scalar variable keeps the type the variable holds  *)
(***************************************************************************)
\* The largest integer of the values assigned.
MaxValue == 2
\* Calls of a.assign().
MaxAssigns == 4
\* Bool, Int and Any values
ScalarValues ==
  {BoolVal(b) : b \in {0, 1}} \cup {IntVal(n) : n \in -1..MaxValue}
    \cup {AnyVal(n) : n \in -1..MaxValue}

\* test_bool_var, test_int_var: a = Variable(held), in the scope of a frame
InitAssign ==
  /\ ctl = NewController(<<>>)
  /\ loopback = FALSE
  /\ last = NoOp
  /\ nops = 0
  /\ verbose = FALSE
  /\ NoTasks
  /\ \E held \in ScalarValues :
       interp = [NoInterpreter EXCEPT
                   !.state = [NewState(0, "") EXCEPT
                                !.scope = Bind(EmptyScope, "a", Variable(held))]]

\* a.assign(v): the exception it raises, if any, is kept in last.err
DoAssign ==
  /\ nops < MaxAssigns
  /\ \E v \in ScalarValues :
       LET r == Assign(interp, "a", v)
       IN  /\ interp' = r.si
           /\ last' = [NoOp EXCEPT !.op = "assign", !.arg = <<v>>, !.err = r.exc]
  /\ nops' = nops + 1
  /\ UNCHANGED <<ctl, loopback, verbose, tasks, ready, hist>>

NextAssign == DoAssign
SpecAssign == InitAssign /\ [][NextAssign]_vars

\* The value the variable a holds
Held == ValueOf(interp, "a")
\* What a.assign(v) does, v being last'.arg[1]
AssignStep ==
  LET v == last'.arg[1]
      now == ValueOf(interp', "a")
  IN  /\ (Held.t = "Bool" /\ (v.t = "Int" \/ (v.t = "Any" /\ v.v \notin {0, 1}))) =>
           last'.err = "StaplValueError" /\ now = Held
      /\ (Held.t = "Int" /\ v.t = "Bool") =>
           last'.err = "StaplValueError" /\ now = Held
      /\ (Held.t \in {"Bool", "Int"} /\ v.t = "Any" /\ v.v \in {0, 1}) =>
           last'.err = "" /\ now = [t |-> Held.t, v |-> v.v]

\* C25: assigning an Int, or an Any other than 0 and 1, to a variable that
\* holds a Bool, or a Bool to one that holds an Int, raises a value error
\* and leaves the value of the variable; assigning Any(0) or Any(1)
\* succeeds and the value stored has the type the variable held.
C25_Assign == [][AssignStep]_vars

\* A variable holds Bool(1), stored by the assignment of Any(1), after the
\* assignment of Int(2) to it has raised a value error.
C25_Witness ==
  /\ nops = 2
  /\ last.op = "assign"
  /\ last.arg = <<IntVal(2)>>
  /\ last.err = "StaplValueError"
  /\ Held = BoolVal(1)

(***************************************************************************)
(* C26: slices of a BoolArray                                              *)
(***************************************************************************)
\* The arrays and the values assigned have up to MaxBits + 1 bits.
BoolArrays == UNION { BitVectors(n) : n \in 1..(MaxBits + 1) }

\* test_bool_array_var: a = ArrayVariable(BoolArray(bits)), in the scope of
\* a frame
InitSlice ==
  /\ ctl = NewController(<<>>)
  /\ loopback = FALSE
  /\ last = NoOp
  /\ nops = 0
  /\ verbose = FALSE
  /\ NoTasks
  /\ \E bits \in BoolArrays :
       interp = [NoInterpreter EXCEPT
                   !.state = [NewState(0, "") EXCEPT
                                !.scope = Bind(EmptyScope, "a", Variable(BoolArray(bits)))]]

\* a.evaluate()[hi:lo] with indices of the array
DoGetSlice ==
  /\ nops < MaxOps
  /\ \E hi, lo \in 0..(Len(ValueOf(interp, "a").v) - 1) :
       last' = [NoOp EXCEPT !.op = "getitem", !.arg = <<hi, lo>>,
                            !.ret = BoolArrayGetSlice(ValueOf(interp, "a").v, hi, lo)]
  /\ nops' = nops + 1
  /\ UNCHANGED <<ctl, loopback, verbose, tasks, ready, hist, interp>>

\* a.assign(slice(hi, lo), BoolArray(v)) with indices of the array
DoSetSlice ==
  /\ nops < MaxOps
  /\ \E hi, lo \in 0..(Len(ValueOf(interp, "a").v) - 1) : \E v \in BoolArrays :
       LET r == AssignArray(interp, "a", "slice", hi, lo, BoolArray(v))
       IN  /\ interp' = r.si
           /\ last' = [NoOp EXCEPT !.op = "setitem", !.arg = <<hi, lo, v>>, !.err = r.exc]
  /\ nops' = nops + 1
  /\ UNCHANGED <<ctl, loopback, verbose, tasks, ready, hist>>

NextSlice == DoGetSlice \/ DoSetSlice
SpecSlice == InitSlice /\ [][NextSlice]_vars

\* |hi - lo| + 1
SliceWidth(hi, lo) == IF hi >= lo THEN hi - lo + 1 ELSE lo - hi + 1
\* Bit j of a[hi..lo] is bit SliceBit(hi, lo, j) of a
SliceBit(hi, lo, j) == IF hi >= lo THEN lo + j ELSE lo - j
\* What a read and an assignment of a[hi..lo] do, hi and lo being the
\* first two arguments of the call and v the third of an assignment
SliceStep ==
  LET a == ValueOf(interp, "a").v
      after == ValueOf(interp', "a").v
      hi == last'.arg[1]
      lo == last'.arg[2]
      width == SliceWidth(hi, lo)
  IN  /\ last'.op = "getitem" =>
           /\ Len(last'.ret) = width
           /\ \A j \in 0..(width - 1) : last'.ret[j + 1] = a[SliceBit(hi, lo, j) + 1]
      /\ last'.op = "setitem" =>
           LET v == last'.arg[3]
               read == BoolArrayGetSlice(after, hi, lo)
           IN  /\ last'.err = ""
               /\ Len(after) = Len(a)
               /\ \A k \in 0..(Len(a) - 1) :
                    ((k < hi /\ k < lo) \/ (k > hi /\ k > lo)) => after[k + 1] = a[k + 1]
               /\ Len(read) = width
               /\ \A j \in 0..(width - 1) :
                    read[j + 1] = (IF j < Len(v) THEN v[j + 1] ELSE 0)

\* C26: for a BoolArray a and indices hi, lo of it, reading a[hi..lo]
\* returns |hi-lo|+1 bits whose bit j is a[lo+j] when hi >= lo and a[lo-j]
\* when hi < lo; assigning a BoolArray v to a[hi..lo] changes only bits
\* whose index lies between hi and lo, leaves the length of the array, and
\* a[hi..lo] read afterwards is v cut to its low |hi-lo|+1 bits or
\* extended by zeros to that width.
C26_Slices == [][SliceStep]_vars

\* The array 1,1,0 (bits 2..0) after 1,0,1 (bits 2..0) was assigned to
\* a[0..1] of the array 1,1,1: v is cut to its low bits 0,1, bit 0 of v is
\* stored in a[1] and bit 1 in a[0].
C26_Witness ==
  /\ nops = 1
  /\ last.op = "setitem"
  /\ last.arg = <<0, 1, <<1, 0, 1>>>>
  /\ last.err = ""
  /\ ValueOf(interp, "a").v = <<0, 1, 1>>

(***************************************************************************)
(* C27: the frequency handed to the transport and the devices' max_freq    *)
(***************************************************************************)
\* The highest max_freq of a device or of the controller; the frequencies
\* asked for go one higher.
MaxFreq == 2
MaxFreqs == {None} \cup 1..MaxFreq

\* PROCEDURE F; FREQUENCY f; ENDPROC;
FileFrequency(f) ==
  StaplFile(
    << Action("F", << <<"F", "required">> >>) >>,
    << ProcedureInstruction("F", <<>>), FrequencyInstruction(Lit(f)),
       EndProcedureInstruction >>)

\* TapController(drv, max_freq=own), add_device(Device(..., max_freq=...))
\* for every device of hw, validate_chain()
FreqSetup(hw, own, limits) ==
  LET built == AddDevices([NewController(hw) EXCEPT !.max_freq = own], hw)
      devices == [built EXCEPT !.chain = [d \in DOMAIN built.chain |->
                                            [built.chain[d] EXCEPT !.max_freq = limits[d]]]]
  IN  ValidateChain(devices)

InitFreq ==
  /\ \E hw \in HwConfigs : \E own \in MaxFreqs : \E limits \in [1..Len(hw) -> MaxFreqs] :
       /\ ctl = Quiet(FreqSetup(hw, own, limits).c)
       /\ last = [NoOp EXCEPT !.op = "validate_chain", !.err = FreqSetup(hw, own, limits).err]
  /\ loopback = FALSE
  /\ nops = 0
  /\ verbose = FALSE
  /\ NoTasks
  /\ \E f \in 1..(MaxFreq + 1) : interp = StaplInterpreter(ctl, FileFrequency(f))

\* ctl.set_frequency(f), while no run() is in progress
DoSetFrequency ==
  /\ nops < MaxOps
  /\ ~interp.running
  /\ \E f \in 1..(MaxFreq + 1) :
       /\ ctl' = SetFrequency(ctl, f).c
       /\ last' = [NoOp EXCEPT !.op = "set_frequency", !.arg = <<f>>]
  /\ interp' = [interp EXCEPT !.ctl = ctl']
  /\ nops' = nops + 1
  /\ UNCHANGED <<loopback, verbose, tasks, ready, hist>>

NextFreq == DoSetFrequency \/ DoRunDefault \/ DoExecute
SpecFreq == InitFreq /\ [][NextFreq]_vars

\* The frequencies the method by has handed to the driver
Handed(by) == { ctl.freqs[k].freq : k \in { j \in DOMAIN ctl.freqs : ctl.freqs[j].by = by } }
\* The max_freq of the devices of the chain that declare one
Declared(chain) == { chain[d].max_freq : d \in DOMAIN chain } \ {None}

\* C27: after validate_chain() has succeeded, every frequency that
\* set_frequency(f) hands to the transport, called by the host or by the
\* FREQUENCY statement, is at most the max_freq of every device of the
\* chain that declares one.
C27_Claim ==
  ctl.validated => \A freq \in Handed("set_frequency") : \A m \in Declared(ctl.chain) : freq <= m

\* What limits the frequencies: the one validate_chain() hands is at most
\* the max_freq of every device and of the controller; the ones
\* set_frequency hands are at most the max_freq of the controller, if it
\* was given one.
C27_ControllerLimit ==
  /\ \A freq \in Handed("validate_chain") :
       \A m \in Declared(ctl.chain) \cup ({ctl.max_freq} \ {None}) : freq <= m
  /\ \A freq \in Handed("set_frequency") : ctl.max_freq # None => freq <= ctl.max_freq

\* After a validate_chain() that succeeded and set the frequency 1 of the
\* device, FREQUENCY 3 of a STAPL procedure has handed 2 to the driver,
\* the max_freq of the controller.
C27_Witness ==
  /\ ctl.validated
  /\ Len(ctl.chain) = 1
  /\ ctl.chain[1].max_freq = 1
  /\ ctl.max_freq = 2
  /\ ~interp.running
  /\ interp.result = "done"
  /\ interp.log = <<0, 1, 2>>
  /\ ctl.freqs[Len(ctl.freqs)] = [by |-> "set_frequency", freq |-> 2]

(***************************************************************************)
(* C28: the pc that a STAPL error carries                                  *)
(***************************************************************************)
\* Statements that raise when they are executed: a variable that is not
\* defined, a state DRSTOP may not name, NEXT without FOR, a value that
\* the variable b cannot take; and one that does not raise.
Statements28 ==
  { PushInstruction(Var("u")), DrStopInstruction(SHIFT_DR), NextInstruction("i"),
    AssignmentInstruction(VariableRef("b"), Lit(2)), PushInstruction(Lit(1)) }

\* PROCEDURE MAIN; BOOLEAN b; CALL SUB; main; ENDPROC;
\* PROCEDURE SUB; sub; ENDPROC;
FileErrors(main, sub) ==
  StaplFile(
    << Action("MAIN", << <<"MAIN", "required">> >>),
       Action("SUB", << <<"SUB", "required">> >>) >>,
    << ProcedureInstruction("MAIN", <<>>), BooleanInstruction("b", -1, NoExpr),
       CallInstruction("SUB"), main, EndProcedureInstruction,
       ProcedureInstruction("SUB", <<>>), sub, EndProcedureInstruction >>)

InitErrors ==
  /\ ctl = NewController(<<>>)
  /\ loopback = FALSE
  /\ last = NoOp
  /\ nops = 0
  /\ verbose = TRUE
  /\ NoTasks
  /\ \E main, sub \in Statements28 : interp = StaplInterpreter(ctl, FileErrors(main, sub))

SpecErrors == InitErrors /\ [][NextLoop]_vars

\* run() has ended with an error of STAPL that the execution of a
\* statement raised
RaisedByStatement ==
  /\ RunCalled
  /\ ~interp.running
  /\ interp.result = "raised"
  /\ interp.error \in StaplErrors \ {"StaplExitCode"}
  /\ interp.log # <<>>
\* The index of the statement that was executing when run() ended
LastExecuted == interp.log[Len(interp.log)]

\* C28: every error of STAPL raised by the execution of a statement leaves
\* run() with the index of that statement as its pc, also when the
\* statement is not the first of its procedure or is in a procedure
\* that was CALLed.
C28_Claim == RaisedByStatement => interp.pc = LastExecuted

\* The pc the error carries is the index of the PROCEDURE statement of the
\* procedure that run() started.
C28_EntryPc == RaisedByStatement => interp.pc = interp.stapl.procedures[AskedAction]

\* run("MAIN") has ended in the CALLed procedure SUB, at statement 6, with
\* a variable that is not defined
C28_Witness ==
  /\ RaisedByStatement
  /\ AskedAction = "MAIN"
  /\ interp.error = "VariableNotDefined"
  /\ interp.log = <<0, 1, 2, 5, 6>>
  /\ interp.pc = 0

(***************************************************************************)
(* C29: the variables of a data block, as the procedures that use it see   *)
(* them                                                                    *)
(***************************************************************************)
\* DATA D; INTEGER d = 2; ENDDATA;
\* PROCEDURE W USES D; d = v; ENDPROC;
\* PROCEDURE R USES D; PUSH d; ENDPROC;
FileShare(v) ==
  StaplFile(
    << Action("WR", << <<"W", "required">>, <<"R", "required">> >>),
       Action("R", << <<"R", "required">> >>) >>,
    << DataInstruction("D"), IntegerInstruction("d", Lit(2)), EndDataInstruction,
       ProcedureInstruction("W", <<"D">>),
       AssignmentInstruction(VariableRef("d"), Lit(v)), EndProcedureInstruction,
       ProcedureInstruction("R", <<"D">>), PushInstruction(Var("d")),
       EndProcedureInstruction >>)

InitShare ==
  /\ ctl = NewController(<<>>)
  /\ loopback = FALSE
  /\ last = NoOp
  /\ nops = 0
  /\ verbose = TRUE
  /\ NoTasks
  /\ \E v \in {0, 1, 3} : interp = StaplInterpreter(ctl, FileShare(v))

SpecShare == InitShare /\ [][NextLoop]_vars

\* The procedure R has pushed the value it sees in d
ReadByR ==
  /\ RunCalled
  /\ interp.running
  /\ interp.state.procedure = "R"
  /\ interp.state.stack # <<>>
\* The value the DATA block gives d, and the value W assigns to it
DeclaredInD == IntVal(interp.stapl.statements[2].value.v)
AssignedByW == IntVal(interp.stapl.statements[5].value.v)

\* C29: the scopes built from the DATA blocks are frozen: the assignment
\* that a procedure makes to a variable it took with USES is not seen by
\* a procedure that uses the same data block later in the same run.
C29_Claim ==
  ReadByR => /\ interp.state.stack[1] = DeclaredInD
             /\ interp.data_scopes["D"]["d"].v = DeclaredInD

\* The variables of a data block are shared: a procedure that uses the
\* block after W has assigned to d, in the same run, reads the value W
\* assigned, which is the value in the table of data scopes; every run()
\* builds the data scopes again, so that in a run without W the procedure
\* reads the value the DATA block declares.
C29_Shared ==
  ReadByR => /\ interp.state.stack[1] =
                  (IF AskedAction = "WR" THEN AssignedByW ELSE DeclaredInD)
             /\ interp.data_scopes["D"]["d"].v = interp.state.stack[1]

\* R, run after W in the second run(), has read the 3 that W assigned
C29_Witness ==
  /\ ReadByR
  /\ nops = 2
  /\ AskedAction = "WR"
  /\ AssignedByW = IntVal(3)
  /\ interp.state.stack = <<IntVal(3)>>
  /\ interp.log = <<0, 1, 2, 3, 4, 5, 6, 7>>

(***************************************************************************)
(* C30: where the opcode of the device next to TDI is in the stream that   *)
(* load_instruction shifts                                                 *)
(***************************************************************************)
\* load_instruction has returned on a chain of two or more devices
LoadedSeveral ==
  /\ last.op = "load_instruction"
  /\ last.err = ""
  /\ Len(ctl.chain) >= 2
\* The stream it shifted, bit 0 first, and the opcode of device d in it
IrStream == ChainGenerateIr(ctl.chain, last.arg)
OpcodeOf(d) == Dev(ctl.chain[d].id).opcodes[last.arg]

\* C30: in the stream that load_instruction shifts for a chain of two or
\* more devices, the opcode of the device next to TDI (chain index 0)
\* is at the lowest positions: its bits are shifted first.
C30_Claim ==
  LoadedSeveral => SubSeq(IrStream, 1, Len(OpcodeOf(1))) = OpcodeOf(1)

\* load_instruction was called for an instruction that every device of a
\* chain of two or more devices has: IrStream is what generate_ir makes
\* of it, shifted if the chain is validated
GeneratedSeveral ==
  /\ last.op = "load_instruction"
  /\ Len(ctl.chain) >= 2
  /\ SupportedByAll(ctl.chain, last.arg)

\* The opcode of the device next to TDI is at the highest positions of the
\* stream, shifted last, and the lowest positions, shifted first, hold the
\* opcode of the device next to TDO; when the stream has been shifted the
\* shift stage of each of the two devices holds its opcode.
C30_HighBits ==
  GeneratedSeveral =>
    /\ SubSeq(IrStream, Len(IrStream) - Len(OpcodeOf(1)) + 1, Len(IrStream)) = OpcodeOf(1)
    /\ SubSeq(IrStream, 1, Len(OpcodeOf(Len(ctl.chain)))) = OpcodeOf(Len(ctl.chain))
    /\ last.err = "" =>
         /\ ctl.sims[1].shift_ir = OpcodeOf(1)
         /\ ctl.sims[Len(ctl.sims)].shift_ir = OpcodeOf(Len(ctl.chain))

\* load_instruction(EXTEST) has returned on the chain A, B, C of
\* tests/test_chain.py: the stream is the opcode of C, of B, then of A.
C30_Witness ==
  /\ LoadedSeveral
  /\ last.arg = "EXTEST"
  /\ Hardware = TestChain
  /\ IrStream = DevC.opcodes["EXTEST"] \o DevB.opcodes["EXTEST"] \o DevA.opcodes["EXTEST"]
  /\ DevA.opcodes["EXTEST"] # DevC.opcodes["EXTEST"]

(***************************************************************************)
(* Shifts: the six operations that shift a bit string through the chain,   *)
(* on a validated chain and on one in EXTEST (SpecShift).                  *)
(***************************************************************************)
InitShift ==
  /\ \E hw \in HwConfigsA : \E stage \in {1, 2} :
       ctl = Quiet(Setup(hw, hw, stage, FALSE))
  /\ loopback = FALSE
  /\ last = NoOp
  /\ nops = 0
  /\ interp = NoInterpreter
  /\ verbose = TRUE
  /\ NoTasks

NextShift ==
  \/ DoLoadInstruction
  \/ DoReadRegister
  \/ DoWriteRegister
  \/ DoReadWriteRegister
  \/ DoIrScanTo
  \/ DoDrScanTo

SpecShift == InitShift /\ [][NextShift]_vars

ShiftOps ==
  {"load_instruction", "read_register", "write_register",
   "read_write_register", "ir_scan", "dr_scan"}

\* How many of the bits of a TMS string are 1.
RECURSIVE Ones(_)
Ones(tms) == IF tms = <<>> THEN 0 ELSE Head(tms) + Ones(Tail(tms))

\* The bit string the operation op shifts when called with arg on
\* controller c, the shift state it shifts in, and the state it routes to
\* after the shift (EXIT1 itself when a scan is given no end state).
ShiftedBits(c, op, arg) ==
  CASE op = "load_instruction" -> ChainGenerateIr(c.chain, arg)
    [] op = "read_register" -> Repeat(0, arg)
    [] op \in {"ir_scan", "dr_scan"} -> arg[1]
    [] OTHER -> arg
ShiftIn(op) == IF op \in {"load_instruction", "ir_scan"} THEN SHIFT_IR ELSE SHIFT_DR
ShiftExit(op) == IF ShiftIn(op) = SHIFT_IR THEN EXIT1_IR ELSE EXIT1_DR
ShiftEnd(op, arg) ==
  CASE op = "load_instruction" -> UPDATE_IR
    [] op \in {"ir_scan", "dr_scan"} -> IF arg[2] = None THEN ShiftExit(op) ELSE arg[2]
    [] OTHER -> UPDATE_DR

\* The operation just completed went as far as its shift: it passed its
\* validated test and the chain supports the instruction.
Shifted ==
  /\ last'.op \in ShiftOps
  /\ nops' = nops + 1
  /\ last'.err \notin {"Chain not validated", "Instruction not supported"}
  /\ Len(ShiftedBits(ctl, last'.op, last'.arg)) >= 1

\* C31: every shift of k >= 1 bits by load_instruction, read_register,
\* write_register, read_write_register, ir_scan and dr_scan is accepted by
\* the driver (never one bit with first_tms different from last_tms); the
\* TAP is clocked k times between its arrival in SHIFT and EXIT1, with
\* TMS=1 exactly once, and it is in the operation's end state afterwards,
\* which it reaches from EXIT1 only if that one TMS=1 came with bit k; and
\* exactly k bits have left the chain's shift register and the k bits
\* given have entered it.
C31_ShiftTms ==
  [][ Shifted =>
        LET op == last'.op
            bits == ShiftedBits(ctl, op, last'.arg)
            k == Len(bits)
            at == Goto(ctl, ShiftIn(op), 0)
            to == GotoRoute(ctl.state, ShiftIn(op))
            from == GotoRoute(ShiftExit(op), ShiftEnd(op, last'.arg))
            reg == IF ShiftIn(op) = SHIFT_IR THEN "ir_scan" ELSE "dr_scan"
            through == ChainRegister(at.sims, reg) \o bits
        IN  /\ last'.err = ""
            /\ last'.tck = Len(to.tms) + k + Len(from.tms)
            /\ last'.tms1 = Ones(to.tms) + 1 + Ones(from.tms)
            /\ ctl'.state = ShiftEnd(op, last'.arg)
            /\ \A d \in 1..Len(ctl'.sims) : ctl'.sims[d].state = ctl'.state
            /\ ChainRegister(ctl'.sims, reg) = Slice(through, k, Len(through))
            /\ op \in {"read_register", "read_write_register", "ir_scan", "dr_scan"}
                 => last'.ret = Slice(through, 0, k) ]_vars

\* read_register(1) has returned its one bit on a chain in EXTEST, and
\* the TAP is in UPDATE_DR.
C31_Witness ==
  /\ last.op = "read_register"
  /\ last.arg = 1
  /\ last.err = ""
  /\ Len(last.ret) = 1
  /\ ctl.state = UPDATE_DR
  /\ \A d \in 1..Len(ctl.sims) : ctl.sims[d].state = UPDATE_DR

(***************************************************************************)
(* C32: DRSCAN and IRSCAN with data longer or shorter than the scan        *)
(***************************************************************************)
\* PROCEDURE name; (stops) BOOLEAN d[k] filled with d; BOOLEAN c[k];
\* scan n, d, CAPTURE c; c[] = d; c[0..0] = d; ENDPROC;
LenProcedure(name, stops, d, scan) ==
  <<ProcedureInstruction(name, <<>>)>> \o stops \o Filled("d", d)
    \o << BooleanInstruction("c", Len(d), NoExpr), scan,
          AssignmentInstruction(VariableRef("c"), Var("d")),
          AssignmentInstruction(SliceRef("c", Lit(0), Lit(0)), Var("d")),
          EndProcedureInstruction >>
\* The procedures DR and IR set both stop states to s before they scan,
\* DR0 and IR0 scan without setting a stop state.
FileLen(d, n, s) ==
  LET Stops == <<DrStopInstruction(PAUSE_DR), IrStopInstruction(s), DrStopInstruction(s)>>
      Dr == DrScanInstruction(Lit(n), Var("d"), VariableRef("c"), NoExpr, NoExpr, NoVariable)
      Ir == IrScanInstruction(Lit(n), Var("d"), VariableRef("c"), NoExpr, NoExpr, NoVariable)
  IN  StaplFile(
        << Action("DR", << <<"DR", "required">> >>), Action("IR", << <<"IR", "required">> >>),
           Action("DR0", << <<"DR0", "required">> >>),
           Action("IR0", << <<"IR0", "required">> >> ) >>,
        LenProcedure("DR", Stops, d, Dr) \o LenProcedure("IR", Stops, d, Ir)
          \o LenProcedure("DR0", <<>>, d, Dr) \o LenProcedure("IR0", <<>>, d, Ir))

InitLen ==
  /\ \E hw \in ScanChains : ctl = Quiet(NewController(hw))
  /\ loopback = FALSE
  /\ last = NoOp
  /\ nops = 0
  /\ verbose = TRUE
  /\ NoTasks
  /\ \E k \in 1..(MaxBits + 1) : \E d \in BitVectors(k) : \E n \in {1, MaxBits} :
       \E s \in {PAUSE_IR, TEST_LOGIC_RESET} :
         interp = StaplInterpreter(ctl, FileLen(d, n, s))

\* run(action) of any action of the file, at most MaxRuns times
DoRunAction ==
  /\ nops < MaxRuns
  /\ ~interp.running
  /\ \E action \in ActionNames(interp.stapl) :
       Called_run("run(action)", <<action>>, InterpreterRunDefault(interp, action))

NextLen ==
  \/ DoRunAction
  \/ DoExecute

SpecLen == InitLen /\ [][NextLen]_vars

\* The state of the last statement op (DRSTOP or IRSTOP) among the
\* statements of indices log, RUN_TEST_IDLE if there is none.
RECURSIVE LastStop(_, _, _)
LastStop(statements, log, op) ==
  IF log = <<>> THEN RUN_TEST_IDLE
  ELSE IF statements[log[Len(log)] + 1].op = op THEN statements[log[Len(log)] + 1].state
  ELSE LastStop(statements, SubSeq(log, 1, Len(log) - 1), op)

\* data brought to len bits: its low bits, or data and zeros above it
FitToLen(data, len) == [j \in 1..len |-> IF j <= Len(data) THEN data[j] ELSE 0]

\* What the step does when the statement it executes is a scan of len
\* bits of data: unless it is an IRSCAN of data shorter than len, the
\* controller is asked for one scan of the register the statement names
\* with data brought to len bits, the TAP is clocked len times in SHIFT
\* between its arrival there and its way from EXIT1 to the stop state,
\* the bits come back unchanged where TDI is wired to TDO, and the
\* controller and the TAP are in the stop state of this run; an IRSCAN of
\* shorter data ends the run with an error and clocks nothing.
ScanLenStep ==
  (interp.running /\ Executing.op \in {"DRSCAN", "IRSCAN"}) =>
    LET ir == Executing.op = "IRSCAN"
        data == ValueOf(interp, "d").v
        len == Executing.length.v
        stop == LastStop(interp.stapl.statements, interp.log,
                         IF ir THEN "IRSTOP" ELSE "DRSTOP")
        shift == IF ir THEN SHIFT_IR ELSE SHIFT_DR
        exit1 == IF ir THEN EXIT1_IR ELSE EXIT1_DR
    IN  IF ir /\ Len(data) < len
        THEN /\ ~interp'.running
             /\ interp'.result = "raised"
             /\ interp'.error = "StaplError"
             /\ interp'.scans = interp.scans
             /\ ctl' = ctl
        ELSE /\ interp'.error = ""
             /\ Len(interp'.scans) = Len(interp.scans) + 1
             /\ interp'.scans[Len(interp'.scans)].op = Executing.op
             /\ interp'.scans[Len(interp'.scans)].tdi = FitToLen(data, len)
             /\ Len(interp'.scans[Len(interp'.scans)].tdo) = len
             /\ ctl.sims = <<>> => interp'.scans[Len(interp'.scans)].tdo = FitToLen(data, len)
             /\ ctl'.state = stop
             /\ \A i \in 1..Len(ctl.sims) :
                  /\ ctl'.sims[i].state = stop
                  /\ ctl'.sims[i].tck = ctl.sims[i].tck + Len(GotoRoute(ctl.state, shift).tms)
                                          + len + Len(GotoRoute(exit1, stop).tms)

\* C32: DRSCAN len, data shifts exactly len bits through the data
\* register, the low len bits of a longer data and a shorter data with
\* zeros in the high positions, and leaves the TAP in the state of the
\* last DRSTOP of this run, RUN_TEST_IDLE if there was none; IRSCAN does
\* the same through the instruction register with the state of IRSTOP,
\* but fails without scanning when data is shorter than len.
C32_ScanLength == [][ScanLenStep]_vars

\* A second run has scanned the low two bits of 1, 0, 1 through the data
\* register of a device and left the TAP in RUN_TEST_IDLE, after a first
\* run that set another stop state.
C32_Witness ==
  /\ RunCalled
  /\ nops = 2
  /\ AskedAction = "DR0"
  /\ ~interp.running
  /\ interp.result = "done"
  /\ Len(interp.scans) = 1
  /\ interp.scans[1].tdi = <<1, 0>>
  /\ \E i \in 1..Len(interp.stapl.statements) :
       /\ interp.stapl.statements[i].op = "BOOLEAN"
       /\ interp.stapl.statements[i].length = 3
  /\ Len(ctl.sims) = 1
  /\ ctl.state = RUN_TEST_IDLE
  /\ ctl.sims[1].state = RUN_TEST_IDLE

(***************************************************************************)
(* C33: cycle() and in_extest (SpecGate)                                   *)
(***************************************************************************)
\* cycle() has been called and run by the only task there is
CycleCalled == last'.op = "cycle" /\ nops' = nops + 1

\* C33 as stated: cycle() called while in_extest is false shifts nothing
\* and leaves cycle_counter and every cell's in_value unchanged.
C33_Claim ==
  [][ (CycleCalled /\ ~ctl.in_extest) =>
        /\ last'.tck = 0
        /\ last'.calls = <<>>
        /\ ctl'.cycle_counter = ctl.cycle_counter
        /\ InValues(ctl'.chain) = InValues(ctl.chain) ]_vars

\* C33, what the code does: cycle() never reads in_extest.  On a
\* validated chain it routes to SHIFT_DR, shifts the generated boundary
\* vector through whatever data register the loaded instruction selects,
\* distributes what came back to the cells and increments cycle_counter,
\* whether in_extest is true or false; on a chain that is not validated
\* it raises and changes nothing.
C33_CycleAlwaysScans ==
  [][ CycleCalled =>
        IF ctl.validated
        THEN /\ last'.err = ""
             /\ Len(last'.calls) = 1
             /\ last'.calls[1].op = "read_write_register"
             /\ last'.calls[1].arg = ChainGenerateBr(ctl.chain)
             /\ last'.calls[1].in_extest = ctl.in_extest
             /\ last'.tck = Len(GotoRoute(ctl.state, SHIFT_DR).tms)
                              + ChainBrLen(ctl.chain) + 1
             /\ ctl'.cycle_counter = ctl.cycle_counter + 1
             /\ ctl'.in_extest = ctl.in_extest
             /\ InValues(ctl'.chain)
                  = InValues(ChainUpdateBr(ctl.chain, last'.calls[1].ret).chain)
        ELSE /\ last'.err = "Chain not validated"
             /\ last'.tck = 0
             /\ ctl'.cycle_counter = ctl.cycle_counter
             /\ ctl'.chain = ctl.chain ]_vars

\* cycle() has scanned the boundary vector and counted the scan on a
\* validated chain whose in_extest was false.
C33_Witness ==
  /\ last.op = "cycle"
  /\ last.err = ""
  /\ Len(last.calls) = 1
  /\ ~last.calls[1].in_extest
  /\ ~ctl.in_extest
  /\ last.tck > 0
  /\ ctl.cycle_counter = 1

(***************************************************************************)
(* C34: what in_extest says about the devices (Spec)                       *)
(***************************************************************************)
\* The instruction a device has active: the one its instruction register
\* holds, or the one it is latching when its TAP is in UPDATE_IR.
ActiveInstruction(sim) == IF sim.state = UPDATE_IR THEN sim.shift_ir ELSE sim.ir

\* C34 as stated: whenever in_extest is true every device has EXTEST
\* active, and the operation before was not a reset(), detect_chain() or
\* validate_chain() nor did it leave the TAP in TEST_LOGIC_RESET.
C34_Claim ==
  ctl.in_extest =>
    /\ \A d \in 1..Len(ctl.sims) :
         ActiveInstruction(ctl.sims[d]) = Dev(ctl.sims[d].device).opcodes["EXTEST"]
    /\ last.op \notin {"reset", "detect_chain", "validate_chain"}
    /\ ctl.state # TEST_LOGIC_RESET

\* C34, what the code does: in_extest is assigned by four methods only.
\* extest() leaves it true when it returns and false when it raises;
\* load_instruction, ir_scan and dr_scan clear it when they return, and so
\* does validate_chain when it gets as far as its load_instruction; every
\* other operation, and every one of these that raises before its
\* assignment, leaves it as it was: reset(), enter_state(), detect_chain()
\* and a validate_chain() that fails in detection keep a true in_extest.
C34_FlagAssignments ==
  [][ nops' = nops + 1 =>
        ctl'.in_extest =
          CASE last'.op = "extest" -> last'.err = ""
            [] last'.op \in {"load_instruction", "ir_scan", "dr_scan"} /\ last'.err = ""
                 -> FALSE
            [] last'.op = "validate_chain"
                 /\ last'.err \in {"", "IDCode doesn't match", "Instruction not supported",
                                   "ValueError"}
                 -> IF last'.err = "Instruction not supported" THEN ctl.in_extest ELSE FALSE
            [] OTHER -> ctl.in_extest ]_vars

\* detect_chain() has returned after extest(): every device holds the
\* all-ones instruction detect_chain shifted in, the TAP is in
\* TEST_LOGIC_RESET and in_extest is still true.
C34_Witness ==
  /\ last.op = "detect_chain"
  /\ last.err = ""
  /\ ctl.in_extest
  /\ ctl.state = TEST_LOGIC_RESET
  /\ \A d \in 1..Len(ctl.sims) :
       /\ ctl.sims[d].state = TEST_LOGIC_RESET
       /\ ctl.sims[d].ir = Dev(ctl.sims[d].device).opcodes["BYPASS"]

(***************************************************************************)
(* C35: the call stack from one run() to the next (SpecStapl)              *)
(***************************************************************************)
\* The step starts a procedure of the action: run() was called and
\* reached its first procedure, or the procedure before it has ended.
StartsProcedure ==
  /\ interp'.running
  /\ interp'.started # <<>>
  /\ nops' = nops + 1 \/ Len(interp'.started) > Len(interp.started)
\* The step executes the ENDPROC of a procedure of the action, not of one
\* that was CALLed in this run.
EndsTopLevel ==
  /\ interp.running
  /\ interp.state.pc < Len(interp.stapl.statements)
  /\ Executing.op = "ENDPROC"
  /\ Len(interp.call_stack) = interp.depth

\* C35 as stated: whenever run() starts a procedure of an action the call
\* stack is empty, whatever runs came before, and the ENDPROC of a
\* procedure of the action ends that procedure.
C35_Claim ==
  [][ /\ StartsProcedure => interp'.call_stack = <<>>
      /\ EndsTopLevel => ProcedureRunEnds ]_vars

\* C35, what the code does: run() does not touch the call stack, it starts
\* its procedures over the frames the runs before it left; a statement
\* that ends the run (an EXIT, an error) unwinds nothing, so a run that
\* ends inside a CALLed procedure leaves the frames of its pending CALLs;
\* and the ENDPROC of a procedure of the action ends that procedure only
\* if the stack was empty when run() was called, otherwise it resumes the
\* frame on top of the stack.
C35_StackKept ==
  [][ /\ nops' = nops + 1 =>
           /\ interp'.call_stack = interp.call_stack
           /\ interp'.depth = Len(interp.call_stack)
      /\ (interp.running /\ ~interp'.running /\ interp'.result = "raised") =>
           IsPrefix(interp.call_stack, interp'.call_stack)
      /\ (interp.running /\ interp.state.pc < Len(interp.stapl.statements)
            /\ Executing.op = "EXIT") =>
           interp'.call_stack = interp.call_stack
      /\ EndsTopLevel =>
           IF interp.depth = 0 THEN ProcedureRunEnds
           ELSE /\ interp'.running
                /\ interp'.state = interp.call_stack[interp.depth]
                /\ Len(interp'.call_stack) = interp.depth - 1 ]_vars

\* run("Z") of FileExit(7), called after a run("Y") that ended at the
\* EXIT 7 of the procedure S that R had CALLed, has started Q over R's
\* frame, and Q's ENDPROC has resumed R after its CALL.
C35_Witness ==
  /\ RunCalled
  /\ nops = 2
  /\ AskedAction = "Z"
  /\ interp.stapl = FileExit(7)
  /\ interp.depth = 1
  /\ interp.started = <<"Q">>
  /\ interp.log = <<5, 6, 7, 11, 12>>
  /\ ~interp.running

(***************************************************************************)
(* C36: the length of an array variable (SpecLen)                          *)
(***************************************************************************)
\* The array variables of the frame the interpreter is in
ArrayNames(si) == { n \in DOMAIN si.state.scope : ValueOf(si, n).t = "BoolArray" }
\* The step executes a statement of a procedure and stays in its frame.
InFrame ==
  /\ interp.running
  /\ interp'.running
  /\ nops' = nops
  /\ interp'.state.procedure = interp.state.procedure
  /\ interp'.call_stack = interp.call_stack
\* The variables a scan may assign: its CAPTURE target and COMPARE result
ScanTargets(instruction) ==
  {instruction.capture_array.name, instruction.compare_result.name}

\* C36 as stated: no statement changes the number of elements of an array
\* variable, and a scan changes no variable but its CAPTURE target and
\* its COMPARE result.
C36_Claim ==
  [][ InFrame =>
        /\ \A n \in ArrayNames(interp) :
             Len(ValueOf(interp', n).v) = Len(ValueOf(interp, n).v)
        /\ Executing.op \in {"DRSCAN", "IRSCAN"} =>
             \A n \in DOMAIN interp.state.scope \ ScanTargets(Executing) :
               ValueOf(interp', n) = ValueOf(interp, n) ]_vars

\* C36, what the code does: a DRSCAN whose data operand is a variable
\* shorter than the scan extends that variable itself with zeros to the
\* length of the scan; but for this, no assignment to an element, a slice
\* or the whole of an array, no CAPTURE and no scan changes the length of
\* an array variable, and a scan changes no other variable than its
\* CAPTURE target.
C36_DrScanExtends ==
  [][ InFrame =>
        LET scan == Executing.op \in {"DRSCAN", "IRSCAN"}
            extends == /\ Executing.op = "DRSCAN"
                       /\ Len(ValueOf(interp, "d").v) < Executing.length.v
        IN  /\ \A n \in ArrayNames(interp) :
                 (extends /\ n = Executing.data_array.name)
                   \/ Len(ValueOf(interp', n).v) = Len(ValueOf(interp, n).v)
            /\ extends =>
                 ValueOf(interp', "d")
                   = BoolArray(FitToLen(ValueOf(interp, "d").v, Executing.length.v))
            /\ scan =>
                 \A n \in DOMAIN interp.state.scope \ ScanTargets(Executing) :
                   (extends /\ n = Executing.data_array.name)
                     \/ ValueOf(interp', n) = ValueOf(interp, n) ]_vars

\* DRSCAN 2, d has run on a variable d declared with one element and set
\* to 1: d now has two elements, and so has the scan's capture.
C36_Witness ==
  /\ RunCalled
  /\ interp.running
  /\ AskedAction = "DR0"
  /\ Len(interp.scans) = 1
  /\ interp.stapl.statements[interp.state.pc].op = "DRSCAN"
  /\ \E i \in 1..Len(interp.stapl.statements) :
       /\ interp.stapl.statements[i].op = "BOOLEAN"
       /\ interp.stapl.statements[i].name = "d"
       /\ interp.stapl.statements[i].length = 1
  /\ ValueOf(interp, "d") = BoolArray(<<1, 0>>)
  /\ Len(ValueOf(interp, "c").v) = 1

(***************************************************************************)
(* C37: the type a declared scalar holds                                   *)
(***************************************************************************)
\* The value IntegerInstruction has when the statement gives none: Int(0)
IntZero == [e |-> "Int", v |-> 0, name |-> ""]

\* ACTION B = B; ACTION I = I;
\* PROCEDURE B; BOOLEAN t; t = 1; INTEGER n; BOOLEAN b (= init); b = rhs;
\*   PUSH b; ENDPROC;
\* PROCEDURE I; BOOLEAN t; t = 1; INTEGER n; INTEGER i (= init); i = rhs;
\*   PUSH i; ENDPROC;
\* t holds a Bool and n an Int for rhs to name.
FileDeclare(init, rhs) ==
  LET Before == << BooleanInstruction("t", -1, NoExpr),
                   AssignmentInstruction(VariableRef("t"), Lit(1)),
                   IntegerInstruction("n", IntZero) >>
      After(x) == << AssignmentInstruction(VariableRef(x), rhs), PushInstruction(Var(x)),
                     EndProcedureInstruction >>
  IN  StaplFile(
        << Action("B", << <<"B", "required">> >>), Action("I", << <<"I", "required">> >>) >>,
        <<ProcedureInstruction("B", <<>>)>> \o Before
          \o <<BooleanInstruction("b", -1, init)>> \o After("b")
          \o <<ProcedureInstruction("I", <<>>)>> \o Before
          \o <<IntegerInstruction("i", IF init = NoExpr THEN IntZero ELSE init)>>
          \o After("i"))

\* The initialisers and the values assigned: none, the literals 0 to
\* MaxValue, a Bool variable and an Int variable
Initialisers == {NoExpr} \cup { Lit(v) : v \in 0..MaxValue }
Assigned == { Lit(v) : v \in 0..MaxValue } \cup {Var("t"), Var("n")}

InitDeclare ==
  /\ ctl = Quiet(NewController(<<>>))
  /\ loopback = FALSE
  /\ last = NoOp
  /\ nops = 0
  /\ verbose = TRUE
  /\ NoTasks
  /\ \E init \in Initialisers : \E rhs \in Assigned :
       interp = StaplInterpreter(ctl, FileDeclare(init, rhs))

SpecDeclare == InitDeclare /\ [][NextLen]_vars

\* The declared scalar of the procedure that runs and the type its
\* declaration names
DeclaredScalar == IF interp.state.procedure = "B" THEN "b" ELSE "i"
DeclaredType == IF interp.state.procedure = "B" THEN "Bool" ELSE "Int"
\* Whether a value is of the type, and whether it is of the other type
OfType(v, t) == v.t = t /\ (t = "Bool" => v.v \in {0, 1})
OfOtherType(v, t) == v.t = (IF t = "Bool" THEN "Int" ELSE "Bool")
\* The step executes the assignment to the declared scalar
AssignsDeclared ==
  /\ interp.running
  /\ Executing.op = "ASSIGN"
  /\ Executing.variable.name = DeclaredScalar

\* The declared scalar holds a value of its declared type.
HoldsDeclaredType ==
  (interp.running /\ DeclaredScalar \in DOMAIN interp.state.scope) =>
    OfType(ValueOf(interp, DeclaredScalar), DeclaredType)

\* C37 as stated: a scalar declared with BOOLEAN holds a Bool and one
\* declared with INTEGER an Int, whatever its initialiser, and every
\* assignment of a value of the other type is rejected with a value error.
C37_Claim ==
  [][ /\ HoldsDeclaredType'
      /\ (AssignsDeclared /\ OfOtherType(Evaluate(interp, Executing.value), DeclaredType))
           => (~interp'.running /\ interp'.error = "StaplValueError") ]_vars

\* C37, what the code does: a declaration without initialiser binds
\* Bool(0) or Int(0), one with an initialiser binds the initialiser's value
\* as it evaluates, of whatever type: an Any for the literals 0 and 1, an
\* Int for every other literal.  An assignment to a variable that holds a
\* Bool or an Int converts a value of that type or an Any that fits, and
\* raises the value error for any other; a variable that holds an Any
\* takes every value as it is, with its type.
C37_HoldsInitialiser ==
  [][ /\ (interp.running /\ Executing.op \in {"BOOLEAN", "INTEGER"}
            /\ Executing.name = DeclaredScalar) =>
           ValueOf(interp', DeclaredScalar)
             = (IF Executing.value = NoExpr THEN BoolVal(0)
                ELSE Evaluate(interp, Executing.value))
      /\ AssignsDeclared =>
           LET old == ValueOf(interp, DeclaredScalar)
               v == Evaluate(interp, Executing.value)
           IN  IF old.t = "Any"
               THEN interp'.running /\ ValueOf(interp', DeclaredScalar) = v
               ELSE IF v.t \in {"Any", old.t} /\ (old.t = "Bool" => v.v \in {0, 1})
               THEN /\ interp'.running
                    /\ ValueOf(interp', DeclaredScalar) = [t |-> old.t, v |-> v.v]
               ELSE ~interp'.running /\ interp'.error = "StaplValueError" ]_vars

\* BOOLEAN b = 1; b = 2; has run without an error: b holds the Int 2.
C37_Witness ==
  /\ RunCalled
  /\ interp.running
  /\ AskedAction = "B"
  /\ interp.state.pc > 0
  /\ interp.stapl.statements[interp.state.pc].op = "ASSIGN"
  /\ interp.stapl.statements[interp.state.pc].variable.name = "b"
  /\ interp.stapl.statements[interp.state.pc].value = Lit(2)
  /\ interp.stapl.statements[interp.state.pc - 1] = BooleanInstruction("b", -1, Lit(1))
  /\ ValueOf(interp, "b") = IntVal(2)

(***************************************************************************)
(* C38: FOR with a STEP that does not divide end - start                   *)
(***************************************************************************)
\* ACTION L = L;
\* PROCEDURE L; FOR i = a TO b STEP s; PUSH i; NEXT i; EXIT 0; ENDPROC;
FileStep(a, b, s) ==
  StaplFile(
    << Action("L", << <<"L", "required">> >>) >>,
    << ProcedureInstruction("L", <<>>), ForInstruction("i", Lit(a), Lit(b), s),
       PushInstruction(Var("i")), NextInstruction("i"), ExitInstruction(Lit(0)),
       EndProcedureInstruction >>)

\* The steps: 1 to MaxLoop, upwards and downwards
Steps == { Lit(s) : s \in 1..MaxLoop } \cup { Neg(s) : s \in 1..MaxLoop }

InitStep ==
  /\ ctl = Quiet(NewController(<<>>))
  /\ loopback = FALSE
  /\ last = NoOp
  /\ nops = 0
  /\ verbose = TRUE
  /\ NoTasks
  /\ \E a, b \in 0..(MaxLoop + 1) : \E s \in Steps :
       interp = StaplInterpreter(ctl, FileStep(a, b, s))

SpecStep == InitStep /\ [][NextLoop]_vars

\* run() has started the procedure with the loop
LoopRuns == RunCalled /\ interp.started # <<>>
Lower(a, b) == IF a < b THEN a ELSE b
Upper(a, b) == IF a < b THEN b ELSE a
Abs(n) == IF n < 0 THEN 0 - n ELSE n

RECURSIVE Again(_, _, _)
Again(cur, end, step) ==
  IF (step > 0 /\ cur < end) \/ (step < 0 /\ cur > end)
  THEN 1 + Again(cur + step, end, step) ELSE 0

Boards == HwConfigsA \cup { <<"S0">>, <<"S1">>, <<"A2">>, <<"B">> }

InitRevalidate ==
  /\ \E hw \in HwConfigsA : \E stage \in {0, 1} :
       ctl = Quiet(Setup(hw, hw, stage, FALSE))
  /\ loopback = FALSE
  /\ last = NoOp
  /\ nops = 0
  /\ interp = NoInterpreter
  /\ verbose = TRUE
  /\ NoTasks

\* The board is exchanged for another one while the controller holds the
\* TAP in TEST_LOGIC_RESET: the driver now clocks the devices of the new
\* board, which are in their power-up state; the controller is not told.
DoExchange ==
  /\ ctl.state = TEST_LOGIC_RESET
  /\ \E hw \in Boards :
       /\ hw # [d \in DOMAIN ctl.sims |-> ctl.sims[d].device]
       /\ ctl' = [ctl EXCEPT !.sims = NewController(hw).sims]
  /\ last' = [NoOp EXCEPT !.op = "exchange"]
  /\ UNCHANGED <<loopback, nops, verbose, tasks, ready, hist, interp>>

NextRevalidate ==
  \/ DoReset
  \/ DoExchange
  \/ DoAddDevice
  \/ DoValidateChain

SpecRevalidate == InitRevalidate /\ [][NextRevalidate]_vars

\* The failures validate_chain raises before its try block
RaisedBeforeTry ==
  {"TDO stuck at 0", "TDO stuck at 1", "Incorrect nr of devices in chain",
   "Incorrect total ir length"}

\* C39 as stated: after a validate_chain that raised, chain.validated is
\* false, whatever it was before the call and whichever check failed.
C39_Claim ==
  (last.op = "validate_chain" /\ last.err # "") => ~ctl.validated

\* C39, what the code does: a validate_chain that raises inside its try
\* block (IDCODE comparison) leaves chain.validated false; one that raises
\* before it (chain detection, device count, total IR length) leaves
\* chain.validated as it was before the call, so true when a validated
\* chain is validated again.  A validate_chain that returns leaves it true.
C39_FlagKeptBeforeTry ==
  [][ last'.op = "validate_chain" =>
        /\ last'.err \in RaisedBeforeTry \cup {"", "IDCode doesn't match"}
        /\ ctl'.validated = IF last'.err \in RaisedBeforeTry THEN ctl.validated
                            ELSE last'.err = "" ]_vars

\* A validated chain of one device has been validated again on a board of
\* two devices: the device count failed and the chain is still validated.
C39_Witness ==
  /\ last.op = "validate_chain"
  /\ last.err = "Incorrect nr of devices in chain"
  /\ Len(ctl.chain) = 1
  /\ Len(ctl.sims) = 2
  /\ ctl.validated

(***************************************************************************)
(* C40: routes through TEST_LOGIC_RESET, of enter_state and of the         *)
(* operations on a validated chain called in every state                   *)
(***************************************************************************)
InitPass ==
  /\ \E hw \in HwConfigsA : \E stage \in {1, 2} :
       ctl = Quiet(Setup(hw, hw, stage, FALSE))
  /\ loopback = FALSE
  /\ last = NoOp
  /\ nops = 0
  /\ interp = NoInterpreter
  /\ verbose = TRUE
  /\ NoTasks

NextPass ==
  \/ DoEnterState
  \/ DoLoadInstruction
  \/ DoReadRegister
  \/ DoWriteRegister
  \/ DoReadWriteRegister
  \/ DoExtest
  \/ DoCycle

SpecPass == InitPass /\ [][NextPass]_vars

\* The route of _goto from state from to state to arrives in
\* TEST_LOGIC_RESET after it has left from.
PassesReset(from, to) ==
  \E k \in 2..Len(GotoRoute(from, to).path) :
    GotoRoute(from, to).path[k] = TEST_LOGIC_RESET

\* The calls of _goto an operation makes when it is called in state from
\* and does not raise, as <<state it is made in, target>>: a shift in the
\* instruction or data column, and the three register operations of extest.
IrHops(from) == << <<from, SHIFT_IR>>, <<EXIT1_IR, UPDATE_IR>> >>
DrHops(from) == << <<from, SHIFT_DR>>, <<EXIT1_DR, UPDATE_DR>> >>
Hops(op, from) ==
  CASE op = "load_instruction" -> IrHops(from)
    [] op = "extest" -> IrHops(from) \o DrHops(UPDATE_IR) \o IrHops(UPDATE_DR)
    [] OTHER -> DrHops(from)

\* The TCK cycles of the hops, and whether one of them passes through
\* TEST_LOGIC_RESET
RECURSIVE HopsTck(_)
HopsTck(hops) ==
  IF hops = <<>> THEN 0
  ELSE Len(GotoRoute(hops[1][1], hops[1][2]).tms) + HopsTck(Tail(hops))
DrivesThroughReset(hops) ==
  \E h \in 1..Len(hops) : PassesReset(hops[h][1], hops[h][2])

RegisterOps ==
  {"load_instruction", "read_register", "write_register", "read_write_register",
   "extest", "cycle"}
\* enter_state has been called with a target other than TEST_LOGIC_RESET,
\* in a state other than SELECT_DR_SCAN and SELECT_IR_SCAN
Routed ==
  /\ last'.op = "enter_state"
  /\ nops' = nops + 1
  /\ ctl.state \notin {SELECT_DR_SCAN, SELECT_IR_SCAN}
  /\ last'.arg # TEST_LOGIC_RESET
\* One of the operations has been called and has not raised
Operated ==
  /\ last'.op \in RegisterOps
  /\ nops' = nops + 1
  /\ last'.err = ""

\* C40 as stated: the route of enter_state from a state other than
\* SELECT_DR_SCAN and SELECT_IR_SCAN to a target other than
\* TEST_LOGIC_RESET never passes through TEST_LOGIC_RESET, and
\* load_instruction, the register read/write operations, extest and cycle
\* never drive the TAP through TEST_LOGIC_RESET.
C40_Claim ==
  [][ /\ Routed => ~PassesReset(ctl.state, last'.arg)
      /\ Operated => ~DrivesThroughReset(Hops(last'.op, ctl.state)) ]_vars

\* C40, amended: the route of enter_state from a state other than
\* SELECT_DR_SCAN and SELECT_IR_SCAN to a target other than
\* TEST_LOGIC_RESET never passes through TEST_LOGIC_RESET (and is the TMS
\* string the TAP is clocked with).  load_instruction and extest never
\* drive the TAP through TEST_LOGIC_RESET; read_register, write_register,
\* read_write_register and cycle do exactly when they are called while
\* the recorded state is SELECT_IR_SCAN, from where the route to SHIFT_DR
\* starts with TEST_LOGIC_RESET.
C40_ResetOnlyFromSelectIr ==
  [][ /\ Routed =>
           /\ ~PassesReset(ctl.state, last'.arg)
           /\ GotoRoute(ctl.state, last'.arg).done
           /\ ctl'.state = last'.arg
           /\ last'.tck = Len(GotoRoute(ctl.state, last'.arg).path) - 1
           /\ \A d \in 1..Len(ctl'.sims) : ctl'.sims[d].state = last'.arg
      /\ Operated =>
           /\ DrivesThroughReset(Hops(last'.op, ctl.state))
                <=> /\ ctl.state = SELECT_IR_SCAN
                    /\ last'.op \notin {"load_instruction", "extest"}
           /\ last'.tck >= HopsTck(Hops(last'.op, ctl.state))
           /\ (ctl.state = SELECT_IR_SCAN /\ last'.op = "read_register")
                => GotoRoute(ctl.state, SHIFT_DR).path =
                     <<SELECT_IR_SCAN, TEST_LOGIC_RESET, RUN_TEST_IDLE,
                       SELECT_DR_SCAN, CAPTURE_DR, SHIFT_DR>> ]_vars

\* read_register(1) has returned after it was called in SELECT_IR_SCAN:
\* six TCK cycles to SHIFT_DR, one bit, one cycle to UPDATE_DR.
C40_Witness ==
  /\ last.op = "read_register"
  /\ last.from = SELECT_IR_SCAN
  /\ last.arg = 1
  /\ last.err = ""
  /\ last.tck = 7
  /\ ctl.state = UPDATE_DR

====
